---- MODULE Spec2Model ----
(***************************************************************************)
(* Residue renumbering of mmCIF and PDB structure files                    *)
(* (src/src/boltz2/renumber.py).                                           *)
(*                                                                         *)
(* A text is a sequence of one-character strings.  Offsets are 0-based    *)
(* and half-open as in the source: Slice(s, a, b) is s[a:b].               *)
(***************************************************************************)
EXTENDS Integers, Sequences, FiniteSets, TLC

VARIABLES
    file_format,                 \* "mmcif" | "pdb": the renumberer the facade dispatched to
    profile,                     \* the family of documents the input is drawn from
    start_residue,               \* argument start_residue
    chain_id,                    \* argument chain_id (None when unset)
    n,                           \* number of input lines consumed so far
    kind,                        \* what the last step did with its line
    line,                        \* the input line of the last step
    out,                         \* the line appended to output_lines for it
    hdr,                         \* section whose header block (inner while loop) is being read
    in_atom_site,
    in_poly_seq_scheme,
    in_entity_poly_seq,
    in_ma_qa_metric_local,
    atom_site_columns,
    poly_seq_scheme_columns,
    entity_poly_seq_columns,
    ma_qa_metric_local_columns

\* A call of the tokenizer and of the positional rewriter on one line.
VARIABLES
    tok_pc,                      \* "idle" | "tokenized" | "replaced"
    tok_line,                    \* argument line
    tok_fields,                  \* find_field_positions(line)
    tok_field_idx,               \* argument field_idx of the rewriter
    tok_new_value,               \* argument new_value of the rewriter
    tok_replaced                 \* what replace_field_preserve_format returned

scan_vars == <<file_format, profile, start_residue, chain_id, n, kind, line, out, hdr,
               in_atom_site, in_poly_seq_scheme, in_entity_poly_seq,
               in_ma_qa_metric_local, atom_site_columns, poly_seq_scheme_columns,
               entity_poly_seq_columns, ma_qa_metric_local_columns>>

tok_vars == <<tok_pc, tok_line, tok_fields, tok_field_idx, tok_new_value, tok_replaced>>

\* Whole calls of renumber_mmcif and renumber_pdb on files.
VARIABLES
    runs,                        \* per invocation: its arguments, position and locals
    fs,                          \* the file system: path -> text of the file, or NoFile
    api                          \* a call of renumber_structure or split_structure_file

run_vars == <<runs, fs, api>>

vars == <<scan_vars, tok_vars, run_vars>>

(***************************************************************************)
(* Bounds of the explored inputs.                                          *)
(***************************************************************************)
MaxLines == 5

\* longest line given to the tokenizer on its own
MaxLineLen == 4

\* most lines of a document renumbered as a whole file
MaxDocLines == 3

\* most lines of a document in the runs checked for termination
MaxLiveLines == 3

\* longest name given to sanitize_name
MaxNameLen == 4

(***************************************************************************)
(* Python values and string primitives.                                    *)
(***************************************************************************)
\* Python's None: a one-element sequence no text can equal (texts hold
\* one-character strings only).
None == <<"<None>">>

WS == {" ", "\t"}
Quotes == {"\"", "'"}
Digits == {"0", "1", "2", "3", "4", "5", "6", "7", "8", "9"}

Min(a, b) == IF a < b THEN a ELSE b

\* s[a:b] for 0 <= a, b (Python clamps b to len(s); an empty slice when a >= b).
Slice(s, a, b) ==
    IF a >= Min(b, Len(s)) THEN <<>> ELSE SubSeq(s, a + 1, Min(b, Len(s)))

\* s.startswith(p)
StartsWith(s, p) == Len(s) >= Len(p) /\ SubSeq(s, 1, Len(p)) = p

RECURSIVE LStripFrom(_, _)
LStripFrom(s, i) ==
    IF i <= Len(s) /\ s[i] \in WS THEN LStripFrom(s, i + 1) ELSE i

RECURSIVE RStripFrom(_, _)
RStripFrom(s, j) ==
    IF j >= 1 /\ s[j] \in WS THEN RStripFrom(s, j - 1) ELSE j

StripBetween(s, i, j) == IF i > j THEN <<>> ELSE SubSeq(s, i, j)

\* s.strip()
Strip(s) == StripBetween(s, LStripFrom(s, 1), RStripFrom(s, Len(s)))

RECURSIVE FindChar(_, _, _)
\* smallest position >= i (1-based) holding c, or Len(s) + 1
FindChar(s, c, i) ==
    IF i > Len(s) THEN Len(s) + 1
    ELSE IF s[i] = c THEN i ELSE FindChar(s, c, i + 1)

\* the text between the "." at position a and the next "." (or the end)
AfterDot(s, a) == Slice(s, a, FindChar(s, ".", a + 1) - 1)

\* s.split(".")[1] for a text holding at least one "."
SplitDot1(s) == AfterDot(s, FindChar(s, ".", 1))

DigitVal(c) ==
    CASE c = "0" -> 0 [] c = "1" -> 1 [] c = "2" -> 2 [] c = "3" -> 3
      [] c = "4" -> 4 [] c = "5" -> 5 [] c = "6" -> 6 [] c = "7" -> 7
      [] c = "8" -> 8 [] c = "9" -> 9

DigitChar(d) == <<"0", "1", "2", "3", "4", "5", "6", "7", "8", "9">>[d + 1]

\* a text without its optional sign
Unsigned(t) == IF t # <<>> /\ t[1] \in {"+", "-"} THEN Tail(t) ELSE t

\* the digits int() reads: whitespace stripped, then the sign removed
IntBody(s) == Unsigned(Strip(s))

\* digits, with single underscores between digits only
IsIntBody(b) ==
    /\ b # <<>>
    /\ \A k \in 1..Len(b) : b[k] \in Digits \cup {"_"}
    /\ b[1] # "_"
    /\ b[Len(b)] # "_"
    /\ \A k \in 1..(Len(b) - 1) : ~(b[k] = "_" /\ b[k + 1] = "_")

\* int(s) does not raise ValueError
PyIntOk(s) == IsIntBody(IntBody(s))

RECURSIVE DigitsValue(_, _)
DigitsValue(b, acc) ==
    IF b = <<>> THEN acc
    ELSE IF Head(b) = "_" THEN DigitsValue(Tail(b), acc)
    ELSE DigitsValue(Tail(b), 10 * acc + DigitVal(Head(b)))

\* int(s), for PyIntOk(s)
PyIntVal(s) ==
    IF Strip(s)[1] = "-"
    THEN 0 - DigitsValue(IntBody(s), 0)
    ELSE DigitsValue(IntBody(s), 0)

RECURSIVE NatStr(_)
NatStr(k) ==
    IF k < 10 THEN <<DigitChar(k)>>
    ELSE NatStr(k \div 10) \o <<DigitChar(k % 10)>>

\* str(k)
PyStr(k) == IF k < 0 THEN <<"-">> \o NatStr(0 - k) ELSE NatStr(k)

RECURSIVE Spaces(_)
Spaces(k) == IF k <= 0 THEN <<>> ELSE <<" ">> \o Spaces(k - 1)

\* t right-justified in a minimum width of w
RJust(t, w) == Spaces(w - Len(t)) \o t

\* f"{k:4d}"
Format4d(k) == RJust(PyStr(k), 4)

\* a one-based slip of the offset: start_residue added without the - 1
new_num_without_minus_one(old_num, s) == old_num + s

\* new_num = old_num + start_residue - 1
new_num(old_num, s) == old_num + s - 1

\* str(int(text) + start_residue - 1)
Renumbered(text, s) == PyStr(new_num(PyIntVal(text), s))

(***************************************************************************)
(* Field tokenizer and positional rewriter.                                *)
(***************************************************************************)
RECURSIVE SkipWhitespace(_, _)
\* while i < len(line) and line[i] in " \t": i += 1
SkipWhitespace(l, i) ==
    IF i < Len(l) /\ l[i + 1] \in WS THEN SkipWhitespace(l, i + 1) ELSE i

RECURSIVE ScanQuoted(_, _, _)
\* while i < len(line) and line[i] != quote_char: i += 1
ScanQuoted(l, i, quote_char) ==
    IF i < Len(l) /\ l[i + 1] # quote_char
    THEN ScanQuoted(l, i + 1, quote_char)
    ELSE i

RECURSIVE ScanRegular(_, _)
\* while i < len(line) and line[i] not in " \t": i += 1
ScanRegular(l, i) ==
    IF i < Len(l) /\ l[i + 1] \notin WS THEN ScanRegular(l, i + 1) ELSE i

\* if i < len(line): i += 1  # Include closing quote
ClosingQuote(l, i) == IF i < Len(l) THEN i + 1 ELSE i

\* the end offset of the field starting at offset start
FieldEnd(l, start) ==
    IF l[start + 1] \in Quotes
    THEN ClosingQuote(l, ScanQuoted(l, start + 1, l[start + 1]))
    ELSE ScanRegular(l, start)

RECURSIVE FieldsFrom(_, _)
\* fields.append((start, end, value)), then the next iteration from end
FieldAppend(l, start, end) ==
    <<[start |-> start, end |-> end, value |-> Slice(l, start, end)]>>
    \o FieldsFrom(l, end)

\* the iteration once whitespace is skipped
FieldAt(l, start) ==
    IF start >= Len(l) THEN <<>> ELSE FieldAppend(l, start, FieldEnd(l, start))

\* one iteration of the outer while loop, from offset i
FieldsFrom(l, i) ==
    IF i >= Len(l) THEN <<>> ELSE FieldAt(l, SkipWhitespace(l, i))

find_field_positions(l) == FieldsFrom(l, 0)

\* [f[2] for f in fields]
Values(fields) == [k \in 1..Len(fields) |-> fields[k].value]

\* parts = [f[2] for f in find_field_positions(line)]
Parts(l) == Values(find_field_positions(l))

\* a slip of the rewriter: the field's own end is taken for its start, so
\* the old text stays in front of the new one
ReplaceInKeepingOld(l, fields, field_idx, new_value) ==
    IF field_idx >= Len(fields) THEN l
    ELSE Slice(l, 0, fields[field_idx + 1].end)
         \o new_value
         \o Slice(l, fields[field_idx + 1].end, Len(l))

\* an index slip of the rewriter: the field after field_idx is replaced
ReplaceInNextField(l, fields, field_idx, new_value) ==
    IF field_idx + 1 >= Len(fields) THEN l
    ELSE Slice(l, 0, fields[field_idx + 2].start)
         \o new_value
         \o Slice(l, fields[field_idx + 2].end, Len(l))

\* line[:start] + new_value + line[end:] for the field at field_idx (0-based)
ReplaceIn(l, fields, field_idx, new_value) ==
    IF field_idx >= Len(fields) THEN l
    ELSE Slice(l, 0, fields[field_idx + 1].start)
         \o new_value
         \o Slice(l, fields[field_idx + 1].end, Len(l))

\* a slicing slip of the rewriter: line[end + 1:] drops the character that
\* follows the field
ReplaceInDroppingSeparator(l, fields, field_idx, new_value) ==
    IF field_idx >= Len(fields) THEN l
    ELSE Slice(l, 0, fields[field_idx + 1].start)
         \o new_value
         \o Slice(l, Min(fields[field_idx + 1].end + 1, Len(l)), Len(l))

replace_field_dropping_separator(l, field_idx, new_value) ==
    ReplaceInDroppingSeparator(l, find_field_positions(l), field_idx, new_value)

replace_field_preserve_format(l, field_idx, new_value) ==
    ReplaceIn(l, find_field_positions(l), field_idx, new_value)

(***************************************************************************)
(* PDB fixed-column renumberer: the body of the for loop, for one line.    *)
(***************************************************************************)
TER == <<"T", "E", "R">>
ATOM == <<"A", "T", "O", "M">>
ANISOU == <<"A", "N", "I", "S", "O", "U">>
HETATM == <<"H", "E", "T", "A", "T", "M">>

\* a record test that also takes HETATM records
PdbRecordMatchesHetatm(l) ==
    StartsWith(l, ATOM) \/ StartsWith(l, TER) \/ StartsWith(l, ANISOU)
    \/ StartsWith(l, HETATM)

\* line.startswith(("ATOM", "TER", "ANISOU"))
PdbRecordMatches(l) ==
    StartsWith(l, ATOM) \/ StartsWith(l, TER) \/ StartsWith(l, ANISOU)

\* current_chain = line[21] if len(line) > 21 else None
PdbCurrentChain(l) == IF Len(l) > 21 THEN <<l[22]>> ELSE None

\* a chain test that never applies the filter
PdbChainIgnored(current_chain, chain) == TRUE

\* chain_id is None or current_chain == chain_id or current_chain == " "
PdbChainMatches(current_chain, chain) ==
    chain = None \/ current_chain = chain \/ current_chain = <<" ">>

\* line[:22] + new_resnum_str + line[26:], or the line itself on ValueError
PdbSplice(l, old_resnum_str, s) ==
    IF PyIntOk(old_resnum_str)
    THEN Slice(l, 0, 22)
         \o Format4d(new_num(PyIntVal(old_resnum_str), s))
         \o Slice(l, 26, Len(l))
    ELSE l

renumber_pdb_line(l, s, chain) ==
    IF PdbRecordMatches(l)
       /\ PdbChainMatches(PdbCurrentChain(l), chain)
       /\ Len(l) >= 26
    THEN PdbSplice(l, Slice(l, 22, 26), s)
    ELSE l

(***************************************************************************)
(* mmCIF section scanner and renumberer: texts of the format.              *)
(***************************************************************************)
P_atom_site == <<"_", "a", "t", "o", "m", "_", "s", "i", "t", "e", ".">>
P_pdbx_poly_seq_scheme == <<"_", "p", "d", "b", "x", "_", "p", "o", "l", "y", "_", "s", "e", "q", "_", "s", "c", "h", "e", "m", "e", ".">>
P_entity_poly_seq == <<"_", "e", "n", "t", "i", "t", "y", "_", "p", "o", "l", "y", "_", "s", "e", "q", ".">>
P_ma_qa_metric_local == <<"_", "m", "a", "_", "q", "a", "_", "m", "e", "t", "r", "i", "c", "_", "l", "o", "c", "a", "l", ".">>
LOOP_ == <<"l", "o", "o", "p", "_">>
HASH == <<"#">>
USCORE == <<"_">>
DOT == <<".">>
QMARK == <<"?">>
group_PDB == <<"g", "r", "o", "u", "p", "_", "P", "D", "B">>
label_seq_id == <<"l", "a", "b", "e", "l", "_", "s", "e", "q", "_", "i", "d">>
auth_seq_id == <<"a", "u", "t", "h", "_", "s", "e", "q", "_", "i", "d">>
label_asym_id == <<"l", "a", "b", "e", "l", "_", "a", "s", "y", "m", "_", "i", "d">>
asym_id == <<"a", "s", "y", "m", "_", "i", "d">>
seq_id == <<"s", "e", "q", "_", "i", "d">>
pdb_seq_num == <<"p", "d", "b", "_", "s", "e", "q", "_", "n", "u", "m">>
auth_seq_num == <<"a", "u", "t", "h", "_", "s", "e", "q", "_", "n", "u", "m">>
num == <<"n", "u", "m">>
mon_id == <<"m", "o", "n", "_", "i", "d">>

\* an index that is None in the source
NoIdx == 0 - 1

\* cols.index(name) if name in cols else None   (0-based)
ColIndex(cols, name) ==
    IF \E k \in 1..Len(cols) : cols[k] = name
    THEN (CHOOSE k \in 1..Len(cols) :
             cols[k] = name /\ \A j \in 1..(k - 1) : cols[j] # name) - 1
    ELSE NoIdx

\* a data test that also takes lines starting with an underscore
IsDataTextWithUnderscore(t) == t # <<>>

\* t and not t.startswith("_"), for t = line.strip()
IsDataText(t) == t # <<>> /\ ~StartsWith(t, USCORE)

\* line.strip() and not line.strip().startswith("_")
IsDataRow(l) == IsDataText(Strip(l))

\* an end test that takes every line starting with "#"
IsEndTextByPrefix(t) == StartsWith(t, HASH) \/ StartsWith(t, LOOP_)

\* t == "#" or t.startswith("loop_"), for t = line.strip()
IsEndText(t) == t = HASH \/ StartsWith(t, LOOP_)

\* line.strip() == "#" or line.strip().startswith("loop_")
IsSectionEnd(l) == IsEndText(Strip(l))

\* the header block a stripped line belongs to, tested in source order
SectionOfText(t) ==
    IF StartsWith(t, P_atom_site) THEN "atom_site"
    ELSE IF StartsWith(t, P_pdbx_poly_seq_scheme) THEN "pdbx_poly_seq_scheme"
    ELSE IF StartsWith(t, P_entity_poly_seq) THEN "entity_poly_seq"
    ELSE IF StartsWith(t, P_ma_qa_metric_local) THEN "ma_qa_metric_local"
    ELSE "none"

\* the header block the main loop enters on this line
SectionOf(l) == SectionOfText(Strip(l))

\* col_name = lines[i].strip().split(".")[1]
ColName(l) == SplitDot1(Strip(l))

(***************************************************************************)
(* Per-section row rules.  A rule returns the line as the section's try    *)
(* block leaves it: an exception keeps what was assigned before it.        *)
(***************************************************************************)
\* record_type == "HETATM"
IsHetatmRow(parts, group_pdb_idx) ==
    group_pdb_idx # NoIdx /\ parts[group_pdb_idx + 1] = HETATM

\* current_chain = parts[idx] if idx is not None else None
CurrentChain(parts, asym_idx) ==
    IF asym_idx # NoIdx THEN parts[asym_idx + 1] ELSE None

\* chain_id is None or current_chain == chain_id
ChainPasses(current_chain, chain) == chain = None \/ current_chain = chain

\* the auth_seq_id replacement; a ValueError or IndexError keeps the line
AtomSiteAuth(l, parts, auth_seq_idx, s) ==
    IF auth_seq_idx = NoIdx THEN l
    ELSE IF auth_seq_idx >= Len(parts) THEN l
    ELSE IF parts[auth_seq_idx + 1] = QMARK THEN l
    ELSE IF ~PyIntOk(parts[auth_seq_idx + 1]) THEN l
    ELSE replace_field_preserve_format(l, auth_seq_idx,
             Renumbered(parts[auth_seq_idx + 1], s))

\* fields = find_field_positions(line) after the first replacement
AtomSiteRetokenized(l, auth_seq_idx, s) ==
    AtomSiteAuth(l, Parts(l), auth_seq_idx, s)

\* the label_seq_id replacement, then the auth_seq_id one
AtomSiteRewrite(l, parts, label_seq_idx, auth_seq_idx, s) ==
    IF label_seq_idx # NoIdx /\ parts[label_seq_idx + 1] # DOT
    THEN IF PyIntOk(parts[label_seq_idx + 1])
         THEN AtomSiteRetokenized(
                  replace_field_preserve_format(l, label_seq_idx,
                      Renumbered(parts[label_seq_idx + 1], s)),
                  auth_seq_idx, s)
         ELSE l
    ELSE AtomSiteAuth(l, parts, auth_seq_idx, s)

\* [line, cont]: cont is the early `continue` of a HETATM row
AtomSiteRow(l, parts, cols, s, chain) ==
    IF Len(parts) < Len(cols) THEN [line |-> l, cont |-> FALSE]
    ELSE IF IsHetatmRow(parts, ColIndex(cols, group_PDB))
    THEN [line |-> l, cont |-> TRUE]
    ELSE IF ChainPasses(CurrentChain(parts, ColIndex(cols, label_asym_id)), chain)
    THEN [line |-> AtomSiteRewrite(l, parts, ColIndex(cols, label_seq_id),
                                   ColIndex(cols, auth_seq_id), s),
          cont |-> FALSE]
    ELSE [line |-> l, cont |-> FALSE]

AtomSiteRule(l, cols, s, chain) == AtomSiteRow(l, Parts(l), cols, s, chain)

SetMax(S) == CHOOSE x \in S : \A y \in S : y <= x

RECURSIVE ApplyDescending(_, _, _, _)
\* for idx, new_val in sorted(indices_to_update, reverse=True): replace
ApplyDescending(l, idxs, parts, s) ==
    IF idxs = {} THEN l
    ELSE ApplyDescending(
             replace_field_preserve_format(l, SetMax(idxs),
                 Renumbered(parts[SetMax(idxs) + 1], s)),
             idxs \ {SetMax(idxs)}, parts, s)

\* the columns of [seq_id, pdb_seq_num, auth_seq_num] present and not "."/"?"
PolySeqSchemeIndices(parts, cols) ==
    {idx \in {ColIndex(cols, seq_id), ColIndex(cols, pdb_seq_num),
              ColIndex(cols, auth_seq_num)} :
        idx # NoIdx /\ parts[idx + 1] \notin {DOT, QMARK}}

\* every new value is computed before any replacement: a ValueError keeps the line
PolySeqSchemeRewrite(l, parts, indices_to_update, s) ==
    IF \E idx \in indices_to_update : ~PyIntOk(parts[idx + 1]) THEN l
    ELSE ApplyDescending(l, indices_to_update, parts, s)

PolySeqSchemeRow(l, parts, cols, s, chain) ==
    IF Len(parts) < Len(cols) THEN l
    ELSE IF ~ChainPasses(CurrentChain(parts, ColIndex(cols, asym_id)), chain) THEN l
    ELSE PolySeqSchemeRewrite(l, parts, PolySeqSchemeIndices(parts, cols), s)

PolySeqSchemeRule(l, cols, s, chain) ==
    PolySeqSchemeRow(l, Parts(l), cols, s, chain)

\* one residue column rewritten unless it holds "." or "?"
RewriteOne(l, parts, idx, s) ==
    IF idx # NoIdx /\ parts[idx + 1] \notin {DOT, QMARK}
    THEN IF PyIntOk(parts[idx + 1])
         THEN replace_field_preserve_format(l, idx, Renumbered(parts[idx + 1], s))
         ELSE l
    ELSE l

EntityPolySeqRow(l, parts, cols, s) ==
    IF Len(parts) < Len(cols) THEN l
    ELSE RewriteOne(l, parts, ColIndex(cols, num), s)

EntityPolySeqRule(l, cols, s) == EntityPolySeqRow(l, Parts(l), cols, s)

MaQaMetricLocalRow(l, parts, cols, s, chain) ==
    IF Len(parts) < Len(cols) THEN l
    ELSE IF ~ChainPasses(CurrentChain(parts, ColIndex(cols, label_asym_id)), chain)
    THEN l
    ELSE RewriteOne(l, parts, ColIndex(cols, label_seq_id), s)

MaQaMetricLocalRule(l, cols, s, chain) ==
    MaQaMetricLocalRow(l, Parts(l), cols, s, chain)

\* The four data blocks of one loop iteration, in source order; f holds the
\* section flags and c the section schemas in force for this line.
AtomSiteBlock(l, f, c, s, chain) ==
    IF f.atom_site /\ IsDataRow(l)
    THEN AtomSiteRule(l, c.atom_site, s, chain)
    ELSE [line |-> l, cont |-> FALSE]

PolySeqSchemeBlock(l, f, c, s, chain) ==
    IF f.poly_seq_scheme /\ IsDataRow(l)
    THEN PolySeqSchemeRule(l, c.poly_seq_scheme, s, chain)
    ELSE l

EntityPolySeqBlock(l, f, c, s) ==
    IF f.entity_poly_seq /\ IsDataRow(l)
    THEN EntityPolySeqRule(l, c.entity_poly_seq, s)
    ELSE l

MaQaMetricLocalBlock(l, f, c, s, chain) ==
    IF f.ma_qa_metric_local /\ IsDataRow(l)
    THEN MaQaMetricLocalRule(l, c.ma_qa_metric_local, s, chain)
    ELSE l

\* what follows the atom_site block: nothing after its `continue`
AfterAtomSite(a, f, c, s, chain) ==
    IF a.cont THEN a.line
    ELSE MaQaMetricLocalBlock(
             EntityPolySeqBlock(
                 PolySeqSchemeBlock(a.line, f, c, s, chain), f, c, s),
             f, c, s, chain)

ProcessRow(l, f, c, s, chain) ==
    AfterAtomSite(AtomSiteBlock(l, f, c, s, chain), f, c, s, chain)

(***************************************************************************)
(* Inputs explored.                                                        *)
(***************************************************************************)
MmcifStartResidues == {1, 3}
PdbStartResidues == {0 - 1, 1, 3}
ChainIds == {None, <<"A">>}

AtomSiteNames == {group_PDB, label_seq_id, auth_seq_id, label_asym_id}
PolySeqSchemeNames == {asym_id, seq_id, pdb_seq_num, auth_seq_num}
EntityPolySeqNames == {mon_id, num}
MaQaMetricLocalNames == {label_asym_id, label_seq_id}

HeaderLines ==
    {P_atom_site \o c : c \in AtomSiteNames}
    \cup {P_pdbx_poly_seq_scheme \o c : c \in PolySeqSchemeNames}
    \cup {P_entity_poly_seq \o c : c \in EntityPolySeqNames}
    \cup {P_ma_qa_metric_local \o c : c \in MaQaMetricLocalNames}

EndLines == {HASH, LOOP_}

DataRows ==
    { <<"9", " ", "9">>,
      <<"A", "T", "O", "M", " ", "A", " ", "9">>,
      <<"H", "E", "T", "A", "T", "M", " ", "A", " ", "9">>,
      <<"A", "T", "O", "M", " ", "B", " ", "9">>,
      <<"9", " ", "H", "E", "T", "A", "T", "M">>,
      <<"9", " ", "x">>,
      <<".", " ", "9">>,
      <<"9", " ", "?">>,
      <<"0", "0", "7", " ", "A">>,
      <<"'", "a", " ", "b", "'", " ", "9">>,
      <<"'", "a", "'", "9", " ", "B">>,
      <<" ", "9", "\t", "9", " ">>,
      <<>>,
      <<"_", "o", "t", "h", "e", "r", ".", "x", " ", "9">>,
      <<"#", " ", "c">>,
      <<"?", " ", ".">> }

\* one atom_site loop
AtomSiteHeaderLines == {P_atom_site \o c : c \in AtomSiteNames}

\* an atom_site loop and a second section
TwoSectionHeaderLines ==
    {P_atom_site \o c : c \in {group_PDB, label_seq_id, auth_seq_id}}
    \cup {P_entity_poly_seq \o num}

\* the documents explored: up to MaxLines lines over the headers of one or
\* two sections, shorter ones over every header
MmcifProfiles ==
    { [headers |-> HeaderLines, max_lines |-> MaxLines - 2],
      [headers |-> AtomSiteHeaderLines, max_lines |-> MaxLines - 1],
      [headers |-> TwoSectionHeaderLines, max_lines |-> MaxLines] }
PdbProfile == [headers |-> {}, max_lines |-> MaxLines - 2]

\* the lines that are not headers of the four sections
OtherLines == EndLines \cup DataRows

\* PDB lines: record name (6), serial/atom/residue name (15), chain (1),
\* residue number (4), rest of the record
PdbRecordNames ==
    { <<"A", "T", "O", "M", " ", " ">>,
      <<"T", "E", "R", " ", " ", " ">>,
      <<"A", "N", "I", "S", "O", "U">>,
      <<"H", "E", "T", "A", "T", "M">>,
      <<"R", "E", "M", "A", "R", "K">> }
PdbMiddle ==
    <<" ", " ", " ", " ", "1", " ", " ", "C", "A", " ", " ", "A", "L", "A", " ">>
PdbChains == {"A", "B", " "}
PdbResidueFields ==
    { <<" ", " ", " ", "1">>,
      <<" ", " ", "4", "2">>,
      <<"9", "9", "9", "9">>,
      <<"-", "9", "9", "9">>,
      <<"0", "0", "0", "7">>,
      <<"1", " ", " ", " ">>,
      <<" ", " ", "1", "A">>,
      <<" ", " ", " ", " ">> }
PdbTail == <<" ", " ", "1", ".", "0">>

PdbLines ==
    {r \o PdbMiddle \o <<c>> \o f :
        r \in PdbRecordNames, c \in PdbChains, f \in PdbResidueFields}
    \cup {ATOM \o <<" ", " ">> \o PdbMiddle \o <<"A">> \o f \o PdbTail :
              f \in PdbResidueFields}
    \cup {TER,
          <<"A", "T", "O", "M", " ", " ">> \o PdbMiddle \o <<"A">>,
          <<"A", "T", "O", "M", " ", " ">> \o PdbMiddle \o <<"A", " ", " ", "1">>}

(***************************************************************************)
(* The state machine: one step per input line.                             *)
(***************************************************************************)
Sections == {"atom_site", "pdbx_poly_seq_scheme", "entity_poly_seq",
             "ma_qa_metric_local"}

\* no call of the tokenizer on its own
TokIdle ==
    /\ tok_pc = "idle"
    /\ tok_line = <<>>
    /\ tok_fields = <<>>
    /\ tok_field_idx = 0
    /\ tok_new_value = <<>>
    /\ tok_replaced = <<>>

\* no call on files
RunIdle ==
    /\ runs = <<>>
    /\ fs = <<>>
    /\ api = [pc |-> "idle"]

Init ==
    /\ TokIdle
    /\ RunIdle
    /\ file_format \in {"mmcif", "pdb"}
    /\ profile \in (IF file_format = "mmcif" THEN MmcifProfiles ELSE {PdbProfile})
    /\ start_residue \in
           (IF file_format = "mmcif" THEN MmcifStartResidues ELSE PdbStartResidues)
    /\ chain_id \in ChainIds
    /\ n = 0
    /\ kind = "start"
    /\ line = <<>>
    /\ out = <<>>
    /\ hdr = "none"
    /\ in_atom_site = FALSE
    /\ in_poly_seq_scheme = FALSE
    /\ in_entity_poly_seq = FALSE
    /\ in_ma_qa_metric_local = FALSE
    /\ atom_site_columns = <<>>
    /\ poly_seq_scheme_columns = <<>>
    /\ entity_poly_seq_columns = <<>>
    /\ ma_qa_metric_local_columns = <<>>

\* the section flags once the header block being read (if any) has ended:
\* in_<section> = True after the inner while loop
FlagsAfterHeader ==
    [atom_site |-> in_atom_site \/ hdr = "atom_site",
     poly_seq_scheme |-> in_poly_seq_scheme \/ hdr = "pdbx_poly_seq_scheme",
     entity_poly_seq |-> in_entity_poly_seq \/ hdr = "entity_poly_seq",
     ma_qa_metric_local |-> in_ma_qa_metric_local \/ hdr = "ma_qa_metric_local"]

Columns ==
    [atom_site |-> atom_site_columns,
     poly_seq_scheme |-> poly_seq_scheme_columns,
     entity_poly_seq |-> entity_poly_seq_columns,
     ma_qa_metric_local |-> ma_qa_metric_local_columns]

Scanning == file_format = "mmcif" /\ kind # "eof" /\ n < profile.max_lines

\* the schema after a header line of section sec naming col: appended while
\* the block of that section is being read, started afresh otherwise
ColumnsAfter(cols, mine, sec, col) ==
    IF sec # mine THEN cols
    ELSE IF hdr = mine THEN Append(cols, col)
    ELSE <<col>>

\* in_<section> = True when the block being read is that section's and the
\* line ends it
FlagAfter(flag, mine, sec) == flag \/ (hdr = mine /\ sec # mine)

HeaderStep(l, sec, col) ==
    /\ atom_site_columns' =
           ColumnsAfter(atom_site_columns, "atom_site", sec, col)
    /\ poly_seq_scheme_columns' =
           ColumnsAfter(poly_seq_scheme_columns, "pdbx_poly_seq_scheme", sec, col)
    /\ entity_poly_seq_columns' =
           ColumnsAfter(entity_poly_seq_columns, "entity_poly_seq", sec, col)
    /\ ma_qa_metric_local_columns' =
           ColumnsAfter(ma_qa_metric_local_columns, "ma_qa_metric_local", sec, col)
    /\ in_atom_site' = FlagAfter(in_atom_site, "atom_site", sec)
    /\ in_poly_seq_scheme' =
           FlagAfter(in_poly_seq_scheme, "pdbx_poly_seq_scheme", sec)
    /\ in_entity_poly_seq' = FlagAfter(in_entity_poly_seq, "entity_poly_seq", sec)
    /\ in_ma_qa_metric_local' =
           FlagAfter(in_ma_qa_metric_local, "ma_qa_metric_local", sec)
    /\ hdr' = sec

\* a line of a section's header block: the block's inner loop takes it, or
\* the main loop starts a new block with it (ending the block being read)
HeaderLine(l) ==
    /\ Scanning
    /\ l \in profile.headers
    /\ SectionOf(l) # "none"
    /\ HeaderStep(l, SectionOf(l), ColName(l))
    /\ line' = l
    /\ out' = l
    /\ kind' = "header"
    /\ n' = n + 1
    /\ UNCHANGED <<file_format, profile, start_residue, chain_id>>

\* "#" or loop_: every section flag is reset, the line is copied
SectionEnd(l) ==
    /\ Scanning
    /\ SectionOf(l) = "none"
    /\ IsSectionEnd(l)
    /\ in_atom_site' = FALSE
    /\ in_poly_seq_scheme' = FALSE
    /\ in_entity_poly_seq' = FALSE
    /\ in_ma_qa_metric_local' = FALSE
    /\ hdr' = "none"
    /\ line' = l
    /\ out' = l
    /\ kind' = "end"
    /\ n' = n + 1
    /\ UNCHANGED <<file_format, profile, start_residue, chain_id, atom_site_columns,
                   poly_seq_scheme_columns, entity_poly_seq_columns,
                   ma_qa_metric_local_columns>>

\* any other line: the data blocks of the active sections act on it
DataLine(l) ==
    /\ Scanning
    /\ SectionOf(l) = "none"
    /\ ~IsSectionEnd(l)
    /\ in_atom_site' = FlagsAfterHeader.atom_site
    /\ in_poly_seq_scheme' = FlagsAfterHeader.poly_seq_scheme
    /\ in_entity_poly_seq' = FlagsAfterHeader.entity_poly_seq
    /\ in_ma_qa_metric_local' = FlagsAfterHeader.ma_qa_metric_local
    /\ hdr' = "none"
    /\ line' = l
    /\ out' = ProcessRow(l, FlagsAfterHeader, Columns, start_residue, chain_id)
    /\ kind' = "data"
    /\ n' = n + 1
    /\ UNCHANGED <<file_format, profile, start_residue, chain_id, atom_site_columns,
                   poly_seq_scheme_columns, entity_poly_seq_columns,
                   ma_qa_metric_local_columns>>

\* one iteration of renumber_pdb's for loop
PdbLine(l) ==
    /\ file_format = "pdb"
    /\ kind # "eof"
    /\ n < profile.max_lines
    /\ line' = l
    /\ out' = renumber_pdb_line(l, start_residue, chain_id)
    /\ kind' = "pdb"
    /\ n' = n + 1
    /\ UNCHANGED <<file_format, profile, start_residue, chain_id, hdr, in_atom_site,
                   in_poly_seq_scheme, in_entity_poly_seq, in_ma_qa_metric_local,
                   atom_site_columns, poly_seq_scheme_columns,
                   entity_poly_seq_columns, ma_qa_metric_local_columns>>

\* end of input: the loop ends (a header block being read ends with it) and
\* the output lines are written
Finish ==
    /\ kind # "eof"
    /\ in_atom_site' = FlagsAfterHeader.atom_site
    /\ in_poly_seq_scheme' = FlagsAfterHeader.poly_seq_scheme
    /\ in_entity_poly_seq' = FlagsAfterHeader.entity_poly_seq
    /\ in_ma_qa_metric_local' = FlagsAfterHeader.ma_qa_metric_local
    /\ hdr' = "none"
    /\ line' = <<>>
    /\ out' = <<>>
    /\ kind' = "eof"
    /\ UNCHANGED <<file_format, profile, start_residue, chain_id, n, atom_site_columns,
                   poly_seq_scheme_columns, entity_poly_seq_columns,
                   ma_qa_metric_local_columns>>

Next ==
    /\ \/ \E l \in HeaderLines : HeaderLine(l)
       \/ \E l \in OtherLines : SectionEnd(l)
       \/ \E l \in OtherLines : DataLine(l)
       \/ \E l \in PdbLines : PdbLine(l)
       \/ Finish
    /\ UNCHANGED <<tok_vars, run_vars>>

Spec == Init /\ [][Next]_vars

\* no scan in progress
ScanIdle ==
    /\ file_format = "none"
    /\ profile = [headers |-> {}, max_lines |-> 0]
    /\ start_residue = 1
    /\ chain_id = None
    /\ n = 0
    /\ kind = "idle"
    /\ line = <<>>
    /\ out = <<>>
    /\ hdr = "none"
    /\ in_atom_site = FALSE
    /\ in_poly_seq_scheme = FALSE
    /\ in_entity_poly_seq = FALSE
    /\ in_ma_qa_metric_local = FALSE
    /\ atom_site_columns = <<>>
    /\ poly_seq_scheme_columns = <<>>
    /\ entity_poly_seq_columns = <<>>
    /\ ma_qa_metric_local_columns = <<>>

(***************************************************************************)
(* The tokenizer and the positional rewriter called on their own: every    *)
(* line over TokAlphabet of at most MaxLineLen characters.                 *)
(***************************************************************************)
TokAlphabet == {" ", "\t", "'", "\"", "a", "9"}
TokLines == UNION {[1..k -> TokAlphabet] : k \in 0..MaxLineLen}
\* field indexes: a line of MaxLineLen characters holds at most two fields,
\* so 2 is out of range
TokFieldIdxs == 0..2
TokNewValues == {<<"1", "2">>, <<>>, <<"'", " ", "'">>}

TokInit ==
    /\ ScanIdle
    /\ RunIdle
    /\ TokIdle

\* fields = find_field_positions(line)
Tokenize(l) ==
    /\ tok_pc = "idle"
    /\ tok_line' = l
    /\ tok_fields' = find_field_positions(l)
    /\ tok_pc' = "tokenized"
    /\ UNCHANGED <<tok_field_idx, tok_new_value, tok_replaced>>

\* replace_field_preserve_format(line, field_idx, new_value)
Replace(k, v) ==
    /\ tok_pc = "tokenized"
    /\ tok_field_idx' = k
    /\ tok_new_value' = v
    /\ tok_replaced' = replace_field_preserve_format(tok_line, k, v)
    /\ tok_pc' = "replaced"
    /\ UNCHANGED <<tok_line, tok_fields>>

TokNext ==
    /\ \/ \E l \in TokLines : Tokenize(l)
       \/ \E k \in TokFieldIdxs, v \in TokNewValues : Replace(k, v)
    /\ UNCHANGED <<scan_vars, run_vars>>

TokSpec == TokInit /\ [][TokNext]_vars

(***************************************************************************)
(* Whole documents: renumber_mmcif and renumber_pdb from read to write.    *)
(***************************************************************************)
NL == "\n"
CR == "\r"
NoFile == <<"<NoFile>">>

\* positions 1..Len(text)
Positions(text) == [k \in 1..Len(text) |-> k]

\* the character that follows a "\r" directly
AfterCR(text, k) == k > 1 /\ text[k - 1] = CR

\* Path.read_text: the text of the file with "\r\n" and "\r" read as "\n"
NewlineAt(text, k) == IF text[k] = CR THEN NL ELSE text[k]
KeptAt(text, kept) == [j \in 1..Len(kept) |-> NewlineAt(text, kept[j])]
UniversalNewlines(text) ==
    KeptAt(text, SelectSeq(Positions(text),
                           LAMBDA k : ~(text[k] = NL /\ AfterCR(text, k))))

read_text(files, path) == UniversalNewlines(files[path])

\* a write that puts every text into one file shared by all calls
write_text_to_shared_file(files, path, text) ==
    [files EXCEPT ![CHOOSE q \in DOMAIN files : TRUE] = text]

\* Path.write_text: the file is created or fully replaced
write_text(files, path, text) == [files EXCEPT ![path] = text]

\* str.splitlines: a line ends at "\n", "\r" or "\r\n"; text after the last
\* line end is a line when it is not empty
LineEnds(text) ==
    SelectSeq(Positions(text),
              LAMBDA k : text[k] = CR \/ (text[k] = NL /\ ~AfterCR(text, k)))
LineEndLast(text, k) ==
    IF text[k] = CR /\ k < Len(text) /\ text[k + 1] = NL THEN k + 1 ELSE k
LineStart(text, ends, j) ==
    IF j = 1 THEN 1 ELSE LineEndLast(text, ends[j - 1]) + 1
LastLine(text, a) ==
    IF a > Len(text) THEN <<>> ELSE <<SubSeq(text, a, Len(text))>>
SplitAt(text, ends) ==
    [j \in 1..Len(ends) |-> SubSeq(text, LineStart(text, ends, j), ends[j] - 1)]
    \o LastLine(text, LineStart(text, ends, Len(ends) + 1))

splitlines(text) == SplitAt(text, LineEnds(text))

\* "\n".join(output_lines)
RECURSIVE join(_)
join(ls) ==
    IF ls = <<>> THEN <<>>
    ELSE IF Len(ls) = 1 THEN ls[1]
    ELSE ls[1] \o <<NL>> \o join(Tail(ls))

\* the locals of renumber_mmcif before its loop
NoFlags ==
    [atom_site |-> FALSE, poly_seq_scheme |-> FALSE,
     entity_poly_seq |-> FALSE, ma_qa_metric_local |-> FALSE]
NoColumns ==
    [atom_site |-> <<>>, poly_seq_scheme |-> <<>>,
     entity_poly_seq |-> <<>>, ma_qa_metric_local |-> <<>>]

SectionPrefix(sec) ==
    CASE sec = "atom_site" -> P_atom_site
      [] sec = "pdbx_poly_seq_scheme" -> P_pdbx_poly_seq_scheme
      [] sec = "entity_poly_seq" -> P_entity_poly_seq
      [] sec = "ma_qa_metric_local" -> P_ma_qa_metric_local

\* i += 1
NextLine(i) == i + 1

\* a header block whose inner loop takes no line
HeaderBlockTakingNoLine(ls, i, prefix) == i

\* the inner while loop of a header block: the value of i once lines[i] no
\* longer starts with the section's prefix, or the document has ended
RECURSIVE HeaderBlockEnd(_, _, _)
HeaderBlockEnd(ls, i, prefix) ==
    IF i < Len(ls) /\ StartsWith(Strip(ls[i + 1]), prefix)
    THEN HeaderBlockEnd(ls, NextLine(i), prefix)
    ELSE i

\* the col_name values appended by the inner loop over lines[i..j-1]
HeaderColumns(ls, i, j) == [k \in 1..(j - i) |-> ColName(ls[i + k])]

\* a header block of section sec running up to line j: the schema of the
\* section is started afresh, the lines are copied, the flag is set
HeaderBlock(ls, r, sec, j) ==
    [r EXCEPT
        !.i = j,
        !.output_lines = r.output_lines \o SubSeq(ls, r.i + 1, j),
        !.c = IF sec = "atom_site"
                  THEN [r.c EXCEPT !.atom_site = HeaderColumns(ls, r.i, j)]
              ELSE IF sec = "pdbx_poly_seq_scheme"
                  THEN [r.c EXCEPT !.poly_seq_scheme = HeaderColumns(ls, r.i, j)]
              ELSE IF sec = "entity_poly_seq"
                  THEN [r.c EXCEPT !.entity_poly_seq = HeaderColumns(ls, r.i, j)]
              ELSE [r.c EXCEPT !.ma_qa_metric_local = HeaderColumns(ls, r.i, j)],
        !.f = IF sec = "atom_site"
                  THEN [r.f EXCEPT !.atom_site = TRUE]
              ELSE IF sec = "pdbx_poly_seq_scheme"
                  THEN [r.f EXCEPT !.poly_seq_scheme = TRUE]
              ELSE IF sec = "entity_poly_seq"
                  THEN [r.f EXCEPT !.entity_poly_seq = TRUE]
              ELSE [r.f EXCEPT !.ma_qa_metric_local = TRUE]]

\* one iteration of the main loop of renumber_mmcif on line l = lines[i]
MmcifIteration(r, l) ==
    IF SectionOf(l) # "none"
    THEN HeaderBlock(r.lines, r, SectionOf(l),
                     HeaderBlockEnd(r.lines, r.i, SectionPrefix(SectionOf(l))))
    ELSE IF IsSectionEnd(l)
    THEN [r EXCEPT !.i = NextLine(r.i),
                   !.output_lines = Append(r.output_lines, l),
                   !.f = NoFlags]
    ELSE [r EXCEPT !.i = NextLine(r.i),
                   !.output_lines =
                       Append(r.output_lines,
                              ProcessRow(l, r.f, r.c, r.start_residue, r.chain_id))]

\* one iteration of the loop of renumber_pdb on line l
PdbIteration(r, l) ==
    [r EXCEPT !.i = NextLine(r.i),
              !.output_lines =
                  Append(r.output_lines,
                         renumber_pdb_line(l, r.start_residue, r.chain_id))]

\* text = input_path.read_text(); lines = text.splitlines(); the locals
LinesRead(r, text) ==
    [r EXCEPT !.pc = "scan", !.text = text, !.lines = splitlines(text)]

\* the arguments and locals of a call that has not started
Call(entry, input_path, output_path, s, chain) ==
    [entry |-> entry, input_path |-> input_path, output_path |-> output_path,
     start_residue |-> s, chain_id |-> chain,
     pc |-> "read", text |-> <<>>, lines |-> <<>>, i |-> 0,
     output_lines |-> <<>>, f |-> NoFlags, c |-> NoColumns]

\* the output of a call that runs alone on the given text
RECURSIVE ScanAlone(_)
ScanAlone(r) ==
    IF r.i >= Len(r.lines) THEN r.output_lines
    ELSE IF r.entry = "renumber_mmcif"
    THEN ScanAlone(MmcifIteration(r, r.lines[r.i + 1]))
    ELSE ScanAlone(PdbIteration(r, r.lines[r.i + 1]))

(* Documents explored. *)
RunMmcifLines ==
    { P_atom_site \o label_seq_id,
      P_atom_site \o auth_seq_id,
      P_entity_poly_seq \o num,
      HASH,
      <<"9", " ", "9">>,
      <<"9", " ", "x">>,
      <<"_", "x", " ", "9">>,
      <<>> }
RunPdbLines ==
    { <<"A", "T", "O", "M", " ", " ">> \o PdbMiddle \o <<"A">> \o <<" ", " ", " ", "1">>,
      <<"A", "T", "O", "M", " ", " ">> \o PdbMiddle \o <<"B">> \o <<" ", " ", "1", "A">>,
      <<"H", "E", "T", "A", "T", "M">> \o PdbMiddle \o <<"A">> \o <<" ", " ", " ", "1">>,
      TER }

LineSeqs(S) == UNION {[1..k -> S] : k \in 0..MaxDocLines}

\* documents of a call that runs on its own: every sequence of lines, and
\* texts with other line ends
RunDocs(entry) ==
    {join(ls) : ls \in LineSeqs(IF entry = "renumber_mmcif"
                                THEN RunMmcifLines ELSE RunPdbLines)}
    \cup { <<"9", NL>>, <<"9", CR, NL, "9">>, <<NL, NL>> }

\* documents of calls that run together
PairDocs(entry) ==
    IF entry = "renumber_mmcif"
    THEN { join(<<P_atom_site \o label_seq_id, <<"9", " ", "9">>, HASH>>),
           join(<<P_entity_poly_seq \o num, <<"9", " ", "x">>, <<"9", " ", "9">>>>) }
    ELSE { join(<<TER, <<"A", "T", "O", "M", " ", " ">> \o PdbMiddle
                       \o <<"A">> \o <<" ", " ", " ", "1">>>>) }

Entries == {"renumber_mmcif", "renumber_pdb"}
RunStartResidues == {3}
OldText == <<"o", "l", "d">>

\* one call, writing to a new file or over its input
OneCall ==
    \E entry \in Entries, chain \in ChainIds, outp \in {"out1", "in1"} :
    \E doc \in RunDocs(entry), s \in RunStartResidues :
        /\ runs = <<Call(entry, "in1", outp, s, chain)>>
        /\ fs = [in1 |-> doc, out1 |-> NoFile]

\* two calls on disjoint pairs of paths, the second over an existing file
TwoCalls ==
    \E e1 \in Entries, e2 \in Entries :
    \E d1 \in PairDocs(e1), d2 \in PairDocs(e2), s \in RunStartResidues :
        /\ runs = <<Call(e1, "in1", "out1", s, None),
                    Call(e2, "in2", "out2", s, None)>>
        /\ fs = [in1 |-> d1, out1 |-> NoFile, in2 |-> d2, out2 |-> OldText]

RunInit ==
    /\ ScanIdle
    /\ TokIdle
    /\ api = [pc |-> "idle"]
    /\ OneCall \/ TwoCalls

\* text = input_path.read_text(encoding="utf-8"); lines = text.splitlines()
Read(p) ==
    /\ runs[p].pc = "read"
    /\ runs' = [runs EXCEPT ![p] = LinesRead(runs[p], read_text(fs, runs[p].input_path))]
    /\ UNCHANGED fs

\* one iteration of `while i < len(lines)` of renumber_mmcif
IterateMmcif(p) ==
    /\ runs[p].pc = "scan"
    /\ runs[p].entry = "renumber_mmcif"
    /\ runs[p].i < Len(runs[p].lines)
    /\ runs' = [runs EXCEPT ![p] = MmcifIteration(runs[p], runs[p].lines[runs[p].i + 1])]
    /\ UNCHANGED fs

\* one iteration of `for line in lines` of renumber_pdb
IteratePdb(p) ==
    /\ runs[p].pc = "scan"
    /\ runs[p].entry = "renumber_pdb"
    /\ runs[p].i < Len(runs[p].lines)
    /\ runs' = [runs EXCEPT ![p] = PdbIteration(runs[p], runs[p].lines[runs[p].i + 1])]
    /\ UNCHANGED fs

\* output_path.write_text("\n".join(output_lines), encoding="utf-8")
Write(p) ==
    /\ runs[p].pc = "scan"
    /\ runs[p].i >= Len(runs[p].lines)
    /\ fs' = write_text(fs, runs[p].output_path, join(runs[p].output_lines))
    /\ runs' = [runs EXCEPT ![p].pc = "done"]

RunNext ==
    /\ \E p \in DOMAIN runs :
          \/ Read(p)
          \/ IterateMmcif(p)
          \/ IteratePdb(p)
          \/ Write(p)
    /\ UNCHANGED <<scan_vars, tok_vars, api>>

RunSpec == RunInit /\ [][RunNext]_vars

(* Documents of the runs checked for termination: every kind of line the
   loops tell apart, with rows of one character. *)
LiveMmcifLines ==
    { P_atom_site \o label_seq_id,
      HASH,
      <<"_", "x", " ", "9">>,
      <<"x">>,
      <<>> }
LivePdbLines ==
    { <<"A", "T", "O", "M", " ", " ">> \o PdbMiddle \o <<"A">> \o <<" ", " ", " ", "1">>,
      <<"A", "T", "O", "M", " ", " ">> \o PdbMiddle \o <<"B">> \o <<" ", " ", "1", "A">>,
      TER }

LiveDocs(entry) ==
    {join(ls) : ls \in UNION {[1..k -> IF entry = "renumber_mmcif"
                                       THEN LiveMmcifLines ELSE LivePdbLines] :
                                  k \in 0..MaxLiveLines}}

LivePairDocs(entry) ==
    IF entry = "renumber_mmcif"
    THEN { join(<<P_atom_site \o label_seq_id, <<"x">>, HASH>>) }
    ELSE { join(<<TER, <<"A", "T", "O", "M", " ", " ">> \o PdbMiddle
                       \o <<"A">> \o <<" ", " ", " ", "1">>>>) }

LiveRunInit ==
    /\ ScanIdle
    /\ TokIdle
    /\ api = [pc |-> "idle"]
    /\ \/ \E entry \in Entries, s \in RunStartResidues : \E doc \in LiveDocs(entry) :
              /\ runs = <<Call(entry, "in1", "out1", s, None)>>
              /\ fs = [in1 |-> doc, out1 |-> NoFile]
       \/ \E e1 \in Entries, e2 \in Entries :
          \E d1 \in LivePairDocs(e1), d2 \in LivePairDocs(e2), s \in RunStartResidues :
              /\ runs = <<Call(e1, "in1", "out1", s, None),
                          Call(e2, "in2", "out2", s, None)>>
              /\ fs = [in1 |-> d1, out1 |-> NoFile, in2 |-> d2, out2 |-> OldText]

\* every call that has started keeps running until it returns
LiveRunSpec == LiveRunInit /\ [][RunNext]_vars /\ WF_vars(RunNext)


(***************************************************************************)
(* Two calls in sequence, the second on the file the first wrote, beside   *)
(* one call on the same input: call 1 renumbers in1 into mid with s1, call *)
(* 2 renumbers mid into out2 with s2, call 3 renumbers in1 into out1 with  *)
(* s1 + s2 - 1.  A call starts when the calls before it have returned.     *)
(***************************************************************************)
ComposeMmcifLines ==
    { P_atom_site \o label_seq_id,
      P_atom_site \o auth_seq_id,
      P_entity_poly_seq \o num,
      HASH,
      <<"9", " ", "9">>,
      <<"0", "0", "7", " ", "?">>,
      <<"9", " ", "x">> }
ComposePdbLines ==
    { <<"A", "T", "O", "M", " ", " ">> \o PdbMiddle \o <<"A">> \o <<" ", " ", " ", "1">>,
      <<"A", "T", "O", "M", " ", " ">> \o PdbMiddle \o <<"A">> \o <<"9", "9", "9", "9">>
          \o PdbTail,
      <<"A", "T", "O", "M", " ", " ">> \o PdbMiddle \o <<"B">> \o <<"0", "0", "0", "7">>,
      <<"H", "E", "T", "A", "T", "M">> \o PdbMiddle \o <<"A">> \o <<" ", " ", "4", "2">>,
      TER }
ComposeDocs(entry) ==
    {join(ls) : ls \in LineSeqs(IF entry = "renumber_mmcif"
                                THEN ComposeMmcifLines ELSE ComposePdbLines)}
ComposeStartResidues == {1, 3}

ComposeInit ==
    /\ ScanIdle
    /\ TokIdle
    /\ api = [pc |-> "idle"]
    /\ \E entry \in Entries, chain \in ChainIds :
       \E doc \in ComposeDocs(entry) :
       \E s1 \in ComposeStartResidues, s2 \in ComposeStartResidues :
           /\ runs = <<Call(entry, "in1", "mid", s1, chain),
                       Call(entry, "mid", "out2", s2, chain),
                       Call(entry, "in1", "out1", s1 + s2 - 1, chain)>>
           /\ fs = [in1 |-> doc, mid |-> NoFile, out1 |-> NoFile, out2 |-> NoFile]

ComposeNext ==
    /\ \E p \in DOMAIN runs :
          /\ \A q \in 1..(p - 1) : runs[q].pc = "done"
          /\ \/ Read(p)
             \/ IterateMmcif(p)
             \/ IteratePdb(p)
             \/ Write(p)
    /\ UNCHANGED <<scan_vars, tok_vars, api>>

ComposeSpec == ComposeInit /\ [][ComposeNext]_vars

(***************************************************************************)
(* Properties.  After a step, `line` is the input line the step read and   *)
(* `out` the line it appended to the output; after a data step the section *)
(* flags and schemas are those that were in force for that line.           *)
(***************************************************************************)
\* the fields of the line read and of the line written
LineParts == Parts(line)
OutParts == Parts(out)

\* the PDB residue field of the line read, and the text that stands in its
\* place in the line written (from offset 22 up to the copied rest)
PdbOldField == Slice(line, 22, 26)
PdbNewField == Slice(out, 22, Len(out) - (Len(line) - 26))

\* the four conditions under which renumber_pdb rewrites a record
PdbQualifies ==
    /\ Len(line) >= 26
    /\ StartsWith(line, ATOM) \/ StartsWith(line, TER) \/ StartsWith(line, ANISOU)
    /\ chain_id = None \/ <<line[22]>> = chain_id \/ line[22] = " "
    /\ PyIntOk(PdbOldField)

\* t is the decimal text str() gives its value
IsCanonical(t) == PyIntOk(t) /\ PyStr(PyIntVal(t)) = t

\* the 0-based positions of the residue-number columns of the active sections
ResidueColumns ==
    ((IF in_atom_site
      THEN {ColIndex(atom_site_columns, label_seq_id),
            ColIndex(atom_site_columns, auth_seq_id)}
      ELSE {})
     \cup (IF in_poly_seq_scheme
           THEN {ColIndex(poly_seq_scheme_columns, seq_id),
                 ColIndex(poly_seq_scheme_columns, pdb_seq_num),
                 ColIndex(poly_seq_scheme_columns, auth_seq_num)}
           ELSE {})
     \cup (IF in_entity_poly_seq
           THEN {ColIndex(entity_poly_seq_columns, num)}
           ELSE {})
     \cup (IF in_ma_qa_metric_local
           THEN {ColIndex(ma_qa_metric_local_columns, label_seq_id)}
           ELSE {}))
    \ {NoIdx}

\* C1 (as stated): every field a step rewrites held an integer and holds
\* that integer plus start_residue - 1 afterwards: in mmCIF every field of a
\* data row whose text changed, in PDB the residue field of a changed record.
OffsetCorrectness ==
    /\ kind = "data" =>
           /\ Len(OutParts) = Len(LineParts)
           /\ \A k \in 1..Len(LineParts) :
                  OutParts[k] # LineParts[k] =>
                      /\ PyIntOk(LineParts[k])
                      /\ PyIntOk(OutParts[k])
                      /\ PyIntVal(OutParts[k])
                             = PyIntVal(LineParts[k]) + start_residue - 1
    /\ (kind = "pdb" /\ out # line) =>
           /\ PyIntOk(PdbOldField)
           /\ PyIntOk(PdbNewField)
           /\ PyIntVal(PdbNewField) = PyIntVal(PdbOldField) + start_residue - 1

HetatmExemption ==
    (/\ kind = "data"
     /\ in_atom_site
     /\ IsDataRow(line)
     /\ ColIndex(atom_site_columns, group_PDB) # NoIdx
     /\ ColIndex(atom_site_columns, group_PDB) < Len(LineParts)
     /\ LineParts[ColIndex(atom_site_columns, group_PDB) + 1] = HETATM)
    => out = line

\* the row has the chain column of a section's schema
HasChain(cols, name) ==
    ColIndex(cols, name) # NoIdx /\ ColIndex(cols, name) < Len(LineParts)

\* the text of that chain column
ChainOf(cols, name) == LineParts[ColIndex(cols, name) + 1]

\* C4 (as stated): with chain_id set, a data row of atom_site,
\* pdbx_poly_seq_scheme or ma_qa_metric_local whose chain column differs from
\* chain_id is written as it was read, and a row whose chain column equals
\* chain_id is written as the section's rule renumbers it.
ChainScopingMmcif ==
    (kind = "data" /\ chain_id # None /\ IsDataRow(line)) =>
        /\ (in_atom_site /\ HasChain(atom_site_columns, label_asym_id)) =>
               IF ChainOf(atom_site_columns, label_asym_id) # chain_id
               THEN out = line
               ELSE out = AtomSiteRule(line, atom_site_columns,
                                       start_residue, chain_id).line
        /\ (in_poly_seq_scheme /\ HasChain(poly_seq_scheme_columns, asym_id)) =>
               IF ChainOf(poly_seq_scheme_columns, asym_id) # chain_id
               THEN out = line
               ELSE out = PolySeqSchemeRule(line, poly_seq_scheme_columns,
                                            start_residue, chain_id)
        /\ (in_ma_qa_metric_local
            /\ HasChain(ma_qa_metric_local_columns, label_asym_id)) =>
               IF ChainOf(ma_qa_metric_local_columns, label_asym_id) # chain_id
               THEN out = line
               ELSE out = MaQaMetricLocalRule(line, ma_qa_metric_local_columns,
                                              start_residue, chain_id)

PdbColumnStability ==
    (kind = "pdb" /\ out # line) =>
        /\ Len(out) = Len(line)
        /\ Slice(out, 0, 22) = Slice(line, 0, 22)
        /\ Slice(out, 26, Len(out)) = Slice(line, 26, Len(line))

\* the field named name of schema cols is one the rule would rewrite (it is
\* in the row and is not the column's exempt sentinel) and is not an integer
FailsParsing(cols, name, exempt) ==
    /\ ColIndex(cols, name) # NoIdx
    /\ ColIndex(cols, name) < Len(LineParts)
    /\ LineParts[ColIndex(cols, name) + 1] \notin exempt
    /\ ~PyIntOk(LineParts[ColIndex(cols, name) + 1])

\* the row has fewer fields than the schema of an active section
ShortRow ==
    \/ in_atom_site /\ Len(LineParts) < Len(atom_site_columns)
    \/ in_poly_seq_scheme /\ Len(LineParts) < Len(poly_seq_scheme_columns)
    \/ in_entity_poly_seq /\ Len(LineParts) < Len(entity_poly_seq_columns)
    \/ in_ma_qa_metric_local /\ Len(LineParts) < Len(ma_qa_metric_local_columns)

\* a field an active section's rule would rewrite fails integer parsing
ParseFailure ==
    \/ /\ in_atom_site
       /\ \/ FailsParsing(atom_site_columns, label_seq_id, {DOT})
          \/ FailsParsing(atom_site_columns, auth_seq_id, {QMARK})
    \/ /\ in_poly_seq_scheme
       /\ \/ FailsParsing(poly_seq_scheme_columns, seq_id, {DOT, QMARK})
          \/ FailsParsing(poly_seq_scheme_columns, pdb_seq_num, {DOT, QMARK})
          \/ FailsParsing(poly_seq_scheme_columns, auth_seq_num, {DOT, QMARK})
    \/ in_entity_poly_seq /\ FailsParsing(entity_poly_seq_columns, num, {DOT, QMARK})
    \/ /\ in_ma_qa_metric_local
       /\ FailsParsing(ma_qa_metric_local_columns, label_seq_id, {DOT, QMARK})

\* C8 (as stated): a data row that is shorter than its section's schema, or
\* has a field the section's rule would rewrite that fails integer parsing,
\* is written as it was read.
PerLineErrorRecovery ==
    (kind = "data" /\ IsDataRow(line) /\ (ShortRow \/ ParseFailure)) => out = line

\* C9: a residue-number field of an active section that holds "." or "?" in
\* the line read holds the same text in the line written.
SentinelPreservation ==
    kind = "data" =>
        \A idx \in ResidueColumns :
            (idx < Len(LineParts) /\ LineParts[idx + 1] \in {DOT, QMARK}) =>
                idx < Len(OutParts) /\ OutParts[idx + 1] = LineParts[idx + 1]

\* a row rewritten next to a sentinel in a residue-number column
RewrittenBesideSentinel ==
    /\ kind = "data"
    /\ out # line
    /\ start_residue # 1
    /\ \E idx \in ResidueColumns :
           idx < Len(LineParts) /\ LineParts[idx + 1] \in {DOT, QMARK}

\* C10: a data line that renumber_mmcif rewrites tokenizes into as many
\* fields after the rewrite as before it.
FieldCountStability ==
    (kind = "data" /\ out # line) =>
        Len(find_field_positions(out)) = Len(find_field_positions(line))

\* a rewritten field that starts where a closing quote ends
RewrittenAfterClosingQuote ==
    /\ kind = "data"
    /\ Len(OutParts) = Len(LineParts)
    /\ \E k \in 2..Len(LineParts) :
           /\ find_field_positions(line)[k].start
                  = find_field_positions(line)[k - 1].end
           /\ LineParts[k - 1][1] \in Quotes
           /\ OutParts[k] # LineParts[k]

\* the residue-number columns of each section
ResidueNames(category) ==
    IF category = "atom_site" THEN {label_seq_id, auth_seq_id}
    ELSE IF category = "pdbx_poly_seq_scheme" THEN {seq_id, pdb_seq_num, auth_seq_num}
    ELSE IF category = "entity_poly_seq" THEN {num}
    ELSE IF category = "ma_qa_metric_local" THEN {label_seq_id}
    ELSE {}

\* the text between the fields of a line: before the first field, between
\* consecutive fields, after the last one
GapsOf(l, fields) ==
    [k \in 1..(Len(fields) + 1) |->
        Slice(l,
              IF k = 1 THEN 0 ELSE fields[k - 1].end,
              IF k = Len(fields) + 1 THEN Len(l) ELSE fields[k].start)]

Gaps(l) == GapsOf(l, find_field_positions(l))

\* the 0-based offsets of tok_line inside some field's span
Covered == {pos \in 0..(Len(tok_line) - 1) :
               \E k \in 1..Len(tok_fields) :
                   tok_fields[k].start <= pos /\ pos < tok_fields[k].end}

\* spans in left-to-right order, non-empty, disjoint, inside the line
SpansOrdered ==
    /\ \A k \in 1..Len(tok_fields) :
           /\ 0 <= tok_fields[k].start
           /\ tok_fields[k].start < tok_fields[k].end
           /\ tok_fields[k].end <= Len(tok_line)
    /\ \A k \in 1..(Len(tok_fields) - 1) :
           tok_fields[k].end <= tok_fields[k + 1].start

\* value == line[start:end]
ValuesAreSpans ==
    \A k \in 1..Len(tok_fields) :
        tok_fields[k].value
            = Slice(tok_line, tok_fields[k].start, tok_fields[k].end)

\* every character outside all spans is a space or a tab
OnlyWhitespaceOutside ==
    \A pos \in 0..(Len(tok_line) - 1) :
        pos \notin Covered => tok_line[pos + 1] \in {" ", "\t"}

\* a field that begins with a quote runs through the next occurrence of that
\* quote, or to the end of the line when there is none
QuotedFieldsClosed ==
    \A k \in 1..Len(tok_fields) :
        tok_line[tok_fields[k].start + 1] \in {"'", "\""} =>
            /\ \A pos \in (tok_fields[k].start + 1)..(tok_fields[k].end - 2) :
                   tok_line[pos + 1] # tok_line[tok_fields[k].start + 1]
            /\ \/ /\ tok_fields[k].end - tok_fields[k].start >= 2
                  /\ tok_line[tok_fields[k].end]
                         = tok_line[tok_fields[k].start + 1]
               \/ /\ tok_fields[k].end = Len(tok_line)
                  /\ \A pos \in (tok_fields[k].start + 1)..(Len(tok_line) - 1) :
                         tok_line[pos + 1] # tok_line[tok_fields[k].start + 1]

\* an unquoted field holds no space or tab and ends at one or at the end of
\* the line
UnquotedFieldsRunToWhitespace ==
    \A k \in 1..Len(tok_fields) :
        tok_line[tok_fields[k].start + 1] \notin {"'", "\""} =>
            /\ \A pos \in tok_fields[k].start..(tok_fields[k].end - 1) :
                   tok_line[pos + 1] \notin {" ", "\t"}
            /\ \/ tok_fields[k].end = Len(tok_line)
               \/ tok_line[tok_fields[k].end + 1] \in {" ", "\t"}

\* an unquoted field starts at the start of the line or after a space or tab
UnquotedFieldsStartAfterWhitespace ==
    \A k \in 1..Len(tok_fields) :
        tok_line[tok_fields[k].start + 1] \notin {"'", "\""} =>
            \/ tok_fields[k].start = 0
            \/ tok_line[tok_fields[k].start] \in {" ", "\t"}

\* C18 (as stated): find_field_positions returns the fields in left-to-right
\* order with non-empty disjoint spans, value == line[start:end], only spaces
\* and tabs outside the spans; an unquoted field is a maximal run of
\* characters other than space and tab; a quoted field runs through its
\* closing quote or to the end of the line; a line without such characters
\* has no fields.
TokenizerContract ==
    tok_pc # "idle" =>
        /\ SpansOrdered
        /\ ValuesAreSpans
        /\ OnlyWhitespaceOutside
        /\ QuotedFieldsClosed
        /\ UnquotedFieldsRunToWhitespace
        /\ UnquotedFieldsStartAfterWhitespace
        /\ (\A pos \in 1..Len(tok_line) : tok_line[pos] \in {" ", "\t"})
               => tok_fields = <<>>

\* C19: replace_field_preserve_format(line, k, v) is line[:start_k] + v +
\* line[end_k:] for the span of the k-th field, and the line itself when k
\* is not below the number of fields.
PositionalRewriter ==
    tok_pc = "replaced" =>
        IF tok_field_idx >= Len(tok_fields)
        THEN tok_replaced = tok_line
        ELSE /\ Len(tok_replaced)
                    = Len(tok_line) + Len(tok_new_value)
                      - (tok_fields[tok_field_idx + 1].end
                         - tok_fields[tok_field_idx + 1].start)
             /\ \A pos \in 1..tok_fields[tok_field_idx + 1].start :
                    tok_replaced[pos] = tok_line[pos]
             /\ \A pos \in 1..Len(tok_new_value) :
                    tok_replaced[tok_fields[tok_field_idx + 1].start + pos]
                        = tok_new_value[pos]
             /\ \A pos \in 1..(Len(tok_line) - tok_fields[tok_field_idx + 1].end) :
                    tok_replaced[tok_fields[tok_field_idx + 1].start
                                 + Len(tok_new_value) + pos]
                        = tok_line[tok_fields[tok_field_idx + 1].end + pos]

\* the second of three fields replaced by a longer text, inside a line that
\* has whitespace on both sides of it
MiddleFieldReplaced ==
    /\ tok_pc = "replaced"
    /\ Len(tok_fields) >= 2
    /\ tok_field_idx = 1
    /\ tok_new_value = <<"1", "2">>
    /\ tok_fields[2].end < Len(tok_line)
    /\ tok_replaced # tok_line

(***************************************************************************)
(* The entry points on paths: detect_file_format, renumber_structure and   *)
(* split_structure_file.  A path is the name of a file in one directory.   *)
(***************************************************************************)
\* characters str.strip() removes
PyWhitespace == {" ", "\t", NL, CR}

\* text.strip()
StripText(text) ==
    IF \A k \in 1..Len(text) : text[k] \in PyWhitespace THEN <<>>
    ELSE SubSeq(text,
                CHOOSE a \in 1..Len(text) :
                    text[a] \notin PyWhitespace
                    /\ \A k \in 1..(a - 1) : text[k] \in PyWhitespace,
                CHOOSE b \in 1..Len(text) :
                    text[b] \notin PyWhitespace
                    /\ \A k \in (b + 1)..Len(text) : text[k] \in PyWhitespace)

\* text.find(sub): the offset of the first occurrence, or -1
Find(text, sub) ==
    IF \E k \in 0..(Len(text) - Len(sub)) : SubSeq(text, k + 1, k + Len(sub)) = sub
    THEN CHOOSE k \in 0..(Len(text) - Len(sub)) :
             /\ SubSeq(text, k + 1, k + Len(sub)) = sub
             /\ \A j \in 0..(k - 1) : SubSeq(text, j + 1, j + Len(sub)) # sub
    ELSE NoIdx

\* sub in text
Contains(text, sub) == Find(text, sub) # NoIdx

UpperCase == <<"A", "B", "C", "D", "E", "F", "G", "H", "I", "J", "K", "L", "M", "N", "O", "P", "Q", "R", "S", "T", "U", "V", "W", "X", "Y", "Z">>
LowerCase == <<"a", "b", "c", "d", "e", "f", "g", "h", "i", "j", "k", "l", "m", "n", "o", "p", "q", "r", "s", "t", "u", "v", "w", "x", "y", "z">>

\* str.lower() on ASCII letters
LowerChar(ch) ==
    IF \E k \in 1..26 : UpperCase[k] = ch
    THEN LowerCase[CHOOSE k \in 1..26 : UpperCase[k] = ch]
    ELSE ch
Lower(text) == [k \in 1..Len(text) |-> LowerChar(text[k])]

\* PurePath.suffix and PurePath.stem: the name is split at its last dot when
\* that dot is neither its first nor its last character
SuffixStart(name) ==
    IF \E k \in 2..(Len(name) - 1) : name[k] = "."
    THEN CHOOSE k \in 2..(Len(name) - 1) :
             name[k] = "." /\ \A j \in (k + 1)..Len(name) : name[j] # "."
    ELSE Len(name) + 1
suffix(name) ==
    IF name # <<>> /\ name[Len(name)] = "." THEN <<>>
    ELSE SubSeq(name, SuffixStart(name), Len(name))
stem(name) == SubSeq(name, 1, Len(name) - Len(suffix(name)))

\* PurePath.with_suffix
with_suffix(name, ext) == stem(name) \o ext

DATA_ == <<"d", "a", "t", "a", "_">>
ATOM_SITE_DOT == <<"_", "a", "t", "o", "m", "_", "s", "i", "t", "e", ".">>
PdbKeywords == {<<"A", "T", "O", "M">>, <<"H", "E", "T", "A", "T", "M">>, <<"H", "E", "A", "D", "E", "R">>, <<"T", "I", "T", "L", "E">>, <<"R", "E", "M", "A", "R", "K">>, <<"C", "R", "Y", "S", "T">>}
DOT_CIF == <<".", "c", "i", "f">>
DOT_MMCIF == <<".", "m", "m", "c", "i", "f">>
DOT_JSON == <<".", "j", "s", "o", "n">>

\* a detection that tests the record keywords before the mmCIF markers
detect_keywords_first(text, name) ==
    IF \E kw \in PdbKeywords : StartsWith(StripText(text), kw) THEN "pdb"
    ELSE IF Contains(text, DATA_) \/ Contains(text, ATOM_SITE_DOT) THEN "mmcif"
    ELSE IF Lower(suffix(name)) \in {DOT_CIF, DOT_MMCIF} THEN "mmcif"
    ELSE "pdb"

\* detect_file_format(path), for the text and the name of the file at path
detect_file_format(text, name) ==
    IF Contains(text, DATA_) \/ Contains(text, ATOM_SITE_DOT) THEN "mmcif"
    ELSE IF \E kw \in PdbKeywords : StartsWith(StripText(text), kw) THEN "pdb"
    ELSE IF Lower(suffix(name)) \in {DOT_CIF, DOT_MMCIF} THEN "mmcif"
    ELSE "pdb"

RENUMBERED == <<"_", "r", "e", "n", "u", "m", "b", "e", "r", "e", "d">>

\* an output name that puts the mark after the suffix of a name that is all
\* suffix
default_output_name_after_suffix(name) == name \o <<"_", "r", "e", "n", "u", "m", "b", "e", "r", "e", "d">>

\* input_path.parent / f"{stem}_renumbered{suffix}"
default_output_path(name) == stem(name) \o RENUMBERED \o suffix(name)

\* renumber_mmcif or renumber_pdb as one step: the text written
Renumbered_text(entry, text, s, chain) ==
    join(ScanAlone(LinesRead(Call(entry, <<>>, <<>>, s, chain), text)))

(* Inputs explored. *)
ApiNames == {<<"a", ".", "p", "d", "b">>, <<"a", ".", "C", "I", "F">>, <<"a", ".", "M", "m", "C", "i", "f">>, <<"a">>, <<".", "c", "i", "f">>, <<"a", ".", "c", "i", "f", ".">>, <<"a", ".", "b", ".", "t", "x", "t">>}
ApiTexts ==
    { <<>>,
      <<"z", "z">>,
      <<"A", "T", "O", "M", " ", "x", " ", "d", "a", "t", "a", "_">>,
      <<"x", " ", "_", "a", "t", "o", "m", "_", "s", "i", "t", "e", ".">>,
      <<" ", "\n", "A", "T", "O", "M">>,
      <<"H", "E", "T", "A", "T", "M">>,
      <<"H", "E", "A", "D", "E", "R">>,
      <<"T", "I", "T", "L", "E">>,
      <<"R", "E", "M", "A", "R", "K">>,
      <<"C", "R", "Y", "S", "T", "1">>,
      <<"X", "A", "T", "O", "M">>,
      <<"T", "E", "R", "\n">> \o <<"A", "T", "O", "M", " ", " ">> \o PdbMiddle \o <<"A">> \o <<" ", " ", " ", "1">>,
      <<"_", "a", "t", "o", "m", "_", "s", "i", "t", "e", ".", "l", "a", "b", "e", "l", "_", "s", "e", "q", "_", "i", "d", "\n", "9", " ", "9", "\n", "#">> }
ApiOutputNames == {None, <<"o", ".", "p", "d", "b">>}
FileFormats == {"auto", "mmcif", "pdb"}

\* the files of the directory: the input, the outputs it may have
ApiFileNames(name) == {name, default_output_path(name), <<"o", ".", "p", "d", "b">>}

\* a call of renumber_structure; the input file may be missing and the
\* output may be the input itself
RenumberStructureCall ==
    \E name \in ApiNames, text \in ApiTexts \cup {NoFile}, old \in {NoFile, OldText} :
    \E outp \in ApiOutputNames \cup {name}, ff \in FileFormats, chain \in ChainIds :
        /\ fs = [q \in ApiFileNames(name) |-> IF q = name THEN text ELSE old]
        /\ api = [op |-> "renumber_structure", pc |-> "exists",
                  input_path |-> name, start_residue |-> 3,
                  output_path |-> outp, chain_id |-> chain, file_format |-> ff,
                  auto |-> ff = "auto", given |-> outp,
                  result |-> None, files |-> fs]

\* an existence test that is always passed
exists_always(files, path) == TRUE

\* Path.exists
exists(files, path) == files[path] # NoFile

\* if not input_path.exists(): raise FileNotFoundError
CheckExists ==
    /\ api.pc = "exists"
    /\ api' = [api EXCEPT !.pc = IF ~exists(fs, api.input_path)
                                 THEN "FileNotFoundError" ELSE "detect"]
    /\ UNCHANGED fs

\* if file_format == "auto": file_format = detect_file_format(input_path)
DetectFormat ==
    /\ api.pc = "detect"
    /\ api' = [api EXCEPT
                  !.pc = "output",
                  !.file_format =
                      IF api.file_format = "auto"
                      THEN detect_file_format(read_text(fs, api.input_path),
                                              api.input_path)
                      ELSE api.file_format]
    /\ UNCHANGED fs

\* output_path: the default name when None
SetOutputPath ==
    /\ api.pc = "output"
    /\ api' = [api EXCEPT
                  !.pc = "renumber",
                  !.output_path =
                      IF api.output_path = None
                      THEN default_output_path(api.input_path)
                      ELSE api.output_path]
    /\ UNCHANGED fs

\* renumber_mmcif or renumber_pdb on the two paths, then return output_path
PerformRenumbering ==
    /\ api.pc = "renumber"
    /\ fs' = write_text(fs, api.output_path,
                        Renumbered_text(IF api.file_format = "mmcif"
                                        THEN "renumber_mmcif" ELSE "renumber_pdb",
                                        read_text(fs, api.input_path),
                                        api.start_residue, api.chain_id))
    /\ api' = [api EXCEPT !.pc = "returned", !.result = api.output_path]

(* split_structure_file (parser.py).  A JSON document is the record of its
   "structures" list, each entry an object with the one key "structure";
   has_key tells {"structures": [...]} from {}. *)
JsonNone == [has_key |-> FALSE, structures |-> <<>>, ok |-> FALSE]
JsonValue(has_key, structures) ==
    [has_key |-> has_key, structures |-> structures, ok |-> TRUE]

\* the text of a string inside JSON: newline, quote and backslash escaped
RECURSIVE JsonEscape(_)
JsonEscape(text) ==
    IF text = <<>> THEN <<>>
    ELSE (IF text[1] = NL THEN <<"\\", "n">>
          ELSE IF text[1] \in {"\"", "\\"} THEN <<"\\", text[1]>>
          ELSE <<text[1]>>) \o JsonEscape(Tail(text))

RECURSIVE JsonStructures(_)
JsonStructures(structures) ==
    IF structures = <<>> THEN <<>>
    ELSE <<"{", "\"", "s", "t", "r", "u", "c", "t", "u", "r", "e", "\"", ":", " ", "\"">> \o JsonEscape(structures[1]) \o <<"\"", "}">>
         \o (IF Len(structures) > 1 THEN <<",", " ">> ELSE <<>>)
         \o JsonStructures(Tail(structures))

\* json.dumps of a document
JsonText(v) ==
    IF v.has_key
    THEN <<"{", "\"", "s", "t", "r", "u", "c", "t", "u", "r", "e", "s", "\"", ":", " ", "[">> \o JsonStructures(v.structures) \o <<"]", "}">>
    ELSE <<"{", "}">>

\* the parsed responses given to extract_all_mmcifs on its own
ResponseStructures == {<<>>, <<"a">>, <<"b", NL>>}
ResponseValues ==
    {JsonValue(TRUE, st) : st \in UNION {[1..k -> ResponseStructures] : k \in 0..2}}
    \cup {JsonValue(FALSE, <<>>)}

StructureTexts == {<<>>, <<"d", "a", "t", "a", "_", "j", "\n", "H", "E", "T", "A", "T", "M", " ", "2", "\n", "A", "T", "O", "M", " ", "9">>}
JsonValues ==
    {JsonValue(TRUE, st) : st \in UNION {[1..k -> StructureTexts] : k \in 0..2}}
    \cup {JsonValue(FALSE, <<>>)}

\* json.load / json.loads: the document whose text this is; JsonNone when
\* the text is no JSON (the exception is swallowed, full_json stays None)
json_loads(text) ==
    IF \E v \in JsonValues \cup ResponseValues : JsonText(v) = StripText(text)
    THEN CHOOSE v \in JsonValues \cup ResponseValues : JsonText(v) = StripText(text)
    ELSE JsonNone

\* `if full_json:` -- a parsed, non-empty object
Truthy(v) == v.ok /\ v.has_key

\* an extraction that keeps empty structure texts
extract_all_structures(v) == IF v.has_key THEN v.structures ELSE <<>>

\* extract_all_mmcifs on a parsed object: the non-empty "structure" texts
extract_all_mmcifs(v) ==
    IF v.has_key THEN SelectSeq(v.structures, LAMBDA st : st # <<>>) ELSE <<>>

\* full_json after the sibling .json file and the input text were tried
SiblingJson(files, name) ==
    IF with_suffix(name, DOT_JSON) # name
       /\ exists(files, with_suffix(name, DOT_JSON))
    THEN json_loads(read_text(files, with_suffix(name, DOT_JSON)))
    ELSE JsonNone
FullJson(sibling, text) ==
    IF ~sibling.ok /\ text # <<>> /\ StripText(text) # <<>>
       /\ StartsWith(StripText(text), <<"{">>)
    THEN json_loads(text)
    ELSE sibling

ENTRY_ID == <<"_", "e", "n", "t", "r", "y", ".", "i", "d">>

\* the mmCIF text found in the raw text: the text itself, the text from
\* _entry.id on, or None (RuntimeError)
RawMmcifText(text) ==
    IF Contains(text, DATA_) \/ Contains(text, LOOP_) THEN text
    ELSE IF Find(text, DATA_) # NoIdx THEN Slice(text, Find(text, DATA_), Len(text))
    ELSE IF Find(text, ENTRY_ID) # NoIdx
    THEN Slice(text, Find(text, ENTRY_ID), Len(text))
    ELSE None

\* mmcif_text: the first structure of the JSON, else the raw text's
MmcifText(full_json, text) ==
    IF Truthy(full_json) /\ extract_all_mmcifs(full_json) # <<>>
    THEN extract_all_mmcifs(full_json)[1]
    ELSE RawMmcifText(text)

\* "\n".join(ln for ln in mmcif_text.splitlines() if not ln.startswith("HETATM"))
ProteinText(mmcif_text) ==
    join(SelectSeq(splitlines(mmcif_text), LAMBDA ln : ~StartsWith(ln, HETATM)))

MmcifOut(name) == stem(name) \o DOT_MMCIF
ProteinOut(name) == stem(name) \o <<"_", "p", "r", "o", "t", "e", "i", "n", ".", "m", "m", "c", "i", "f">>

SplitNames == {<<"x", ".", "m", "m", "c", "i", "f">>, <<"x", ".", "c", "i", "f">>}
SplitTexts ==
    { <<"d", "a", "t", "a", "_", "a", "\n", "H", "E", "T", "A", "T", "M", " ", "1", "\n", "A", "T", "O", "M", " ", "1">>,
      <<"l", "o", "o", "p", "_", "\n", "A", "T", "O", "M", " ", "1", "\n">>,
      <<"#", " ", "c", "\n", "_", "e", "n", "t", "r", "y", ".", "i", "d", " ", "X", "\n", "H", "E", "T", "A", "T", "M", " ", "1">>,
      <<"A", "T", "O", "M", " ", "1">>,
      JsonText(JsonValue(TRUE, <<<<"d", "a", "t", "a", "_", "j", "\n", "H", "E", "T", "A", "T", "M", " ", "2", "\n", "A", "T", "O", "M", " ", "9">>>>)) }
SiblingTexts == {NoFile, <<"n", "o", "t", " ", "j", "s", "o", "n">>} \cup {JsonText(v) : v \in JsonValues}

\* a call of split_structure_file on an existing file, with or without a
\* sibling .json file
SplitStructureCall ==
    \E name \in SplitNames, text \in SplitTexts, sib \in SiblingTexts,
       old \in {NoFile, OldText} :
        /\ fs = [q \in {name, with_suffix(name, DOT_JSON), MmcifOut(name),
                        ProteinOut(name)} |->
                     IF q = name THEN text
                     ELSE IF q = with_suffix(name, DOT_JSON) THEN sib
                     ELSE old]
        /\ api = [op |-> "split_structure_file", pc |-> "load",
                  input_path |-> name, full_json |-> JsonNone,
                  mmcif_text |-> None, mmcif |-> None, protein_mmcif |-> None,
                  files |-> fs]

\* the sibling JSON and the input are read and the mmCIF text is chosen;
\* RuntimeError when there is none
LoadStructure ==
    /\ api.pc = "load"
    /\ \E fj \in {FullJson(SiblingJson(fs, api.input_path),
                           read_text(fs, api.input_path))} :
       \E mt \in {MmcifText(fj, read_text(fs, api.input_path))} :
           api' = [api EXCEPT !.full_json = fj,
                              !.mmcif_text = mt,
                              !.pc = IF mt = None THEN "RuntimeError"
                                     ELSE "write_full"]
    /\ UNCHANGED fs

\* with open(out_dir / f"{base}.mmcif", "w") as f: f.write(mmcif_text)
WriteFullMmcif ==
    /\ api.pc = "write_full"
    /\ fs' = write_text(fs, MmcifOut(api.input_path), api.mmcif_text)
    /\ api' = [api EXCEPT !.pc = "write_protein",
                          !.mmcif = MmcifOut(api.input_path)]

\* the protein-only file is written; the explored JSON documents hold no
\* confidence, affinity or matrix data, so no further file is written
WriteProteinMmcif ==
    /\ api.pc = "write_protein"
    /\ fs' = write_text(fs, ProteinOut(api.input_path), ProteinText(api.mmcif_text))
    /\ api' = [api EXCEPT !.pc = "returned",
                          !.protein_mmcif = ProteinOut(api.input_path)]

ApiInit ==
    /\ ScanIdle
    /\ TokIdle
    /\ runs = <<>>
    /\ RenumberStructureCall \/ SplitStructureCall

ApiNext ==
    /\ \/ CheckExists
       \/ DetectFormat
       \/ SetOutputPath
       \/ PerformRenumbering
       \/ LoadStructure
       \/ WriteFullMmcif
       \/ WriteProteinMmcif
    /\ UNCHANGED <<scan_vars, tok_vars, runs>>

ApiSpec == ApiInit /\ [][ApiNext]_vars

(***************************************************************************)
(* Calls of the helpers extract_all_mmcifs (parser.py) and sanitize_name   *)
(* (utils.py).  response_data is a str or a dict: type tells which.        *)
(***************************************************************************)
\* text.lstrip()
LStripText(text) ==
    IF \A k \in 1..Len(text) : text[k] \in PyWhitespace THEN <<>>
    ELSE SubSeq(text,
                CHOOSE a \in 1..Len(text) :
                    text[a] \notin PyWhitespace
                    /\ \A k \in 1..(a - 1) : text[k] \in PyWhitespace,
                Len(text))

StrResponse(text) == [type |-> "str", text |-> text, dict |-> JsonNone]
DictResponse(v) == [type |-> "dict", text |-> <<>>, dict |-> v]

\* the isinstance(response_data, str) branch: JSON is tried when the text
\* starts with "{", a JSONDecodeError returns the text itself
ExtractFromText(text, parsed) ==
    IF ~StartsWith(LStripText(text), <<"{">>) THEN <<text>>
    ELSE IF ~parsed.ok THEN <<text>>
    ELSE extract_all_mmcifs(parsed)

\* extract_all_mmcifs(response_data)
ExtractAllMmcifs(response_data) ==
    IF response_data.type = "str"
    THEN ExtractFromText(response_data.text, json_loads(response_data.text))
    ELSE extract_all_mmcifs(response_data.dict)

\* a name sanitised without stripping it first
sanitize_name_without_strip(name) ==
    SelectSeq([k \in 1..Len(name) |-> IF name[k] = " " THEN "_" ELSE name[k]],
              LAMBDA ch : ch \in Digits \/ ch \in {"-", "_", "."}
                          \/ \E k \in 1..26 : ch \in {UpperCase[k], LowerCase[k]})

\* ch.isalnum() on ASCII
isalnum(ch) ==
    ch \in Digits \/ \E k \in 1..26 : ch \in {UpperCase[k], LowerCase[k]}

\* text.replace(" ", "_")
ReplaceSpaces(text) ==
    [k \in 1..Len(text) |-> IF text[k] = " " THEN "_" ELSE text[k]]

\* "".join(ch for ch in safe if (ch.isalnum() or ch in "-_."))
KeepSafe(safe) == SelectSeq(safe, LAMBDA ch : isalnum(ch) \/ ch \in {"-", "_", "."})

sanitize_name(name) == KeepSafe(ReplaceSpaces(StripText(name)))

(* Inputs explored. *)
ResponseTexts ==
    { <<>>, <<"d">>, <<" ", "d">>, <<"{", "x">>, <<" ", NL, "{">>,
      <<"[", "]">> }
    \cup {JsonText(v) : v \in ResponseValues}
    \cup {<<" ">> \o JsonText(v) \o <<NL>> : v \in ResponseValues}
    \cup {JsonText(v) \o <<"x">> : v \in ResponseValues}
Responses ==
    {StrResponse(text) : text \in ResponseTexts}
    \cup {DictResponse(v) : v \in ResponseValues}
NameAlphabet == {" ", "\t", "a", "9", "@", "-", "_", "."}
Names == UNION {[1..k -> NameAlphabet] : k \in 0..MaxNameLen}

HelperCall(fn, arg) ==
    [pc |-> "call", fn |-> fn, arg |-> arg, result |-> <<>>, again |-> <<>>]

HelperInit ==
    /\ ScanIdle
    /\ TokIdle
    /\ runs = <<>>
    /\ fs = <<>>
    /\ \/ \E response_data \in Responses :
              api = HelperCall("extract_all_mmcifs", response_data)
       \/ \E name \in Names : api = HelperCall("sanitize_name", name)

\* mmcifs = extract_all_mmcifs(response_data)
CallExtractAllMmcifs ==
    /\ api.pc = "call"
    /\ api.fn = "extract_all_mmcifs"
    /\ api' = [api EXCEPT !.pc = "returned", !.result = ExtractAllMmcifs(api.arg)]

\* safe = sanitize_name(name)
CallSanitizeName ==
    /\ api.pc = "call"
    /\ api.fn = "sanitize_name"
    /\ api' = [api EXCEPT !.pc = "returned", !.result = sanitize_name(api.arg)]

\* sanitize_name(safe): the function applied to its own result
CallSanitizeNameAgain ==
    /\ api.pc = "returned"
    /\ api.fn = "sanitize_name"
    /\ api' = [api EXCEPT !.pc = "resanitized", !.again = sanitize_name(api.result)]

HelperNext ==
    /\ \/ CallExtractAllMmcifs
       \/ CallSanitizeName
       \/ CallSanitizeNameAgain
    /\ UNCHANGED <<scan_vars, tok_vars, runs, fs>>

HelperSpec == HelperInit /\ [][HelperNext]_vars

(***************************************************************************)
(* Whole-document properties (RunSpec, LiveRunSpec).                       *)
(***************************************************************************)
\* lines the scanner copies whatever the sections in force: section
\* headers, "#" and loop_ delimiters, blank lines, lines starting with "_"
Verbatim(l) ==
    \/ SectionOf(l) # "none"
    \/ IsSectionEnd(l)
    \/ Strip(l) = <<>>
    \/ StartsWith(Strip(l), USCORE)

ReassembledSoFar(r) ==
    /\ r.i <= Len(r.lines)
    /\ Len(r.output_lines) = r.i
    /\ \A k \in 1..r.i : Verbatim(r.lines[k]) => r.output_lines[k] = r.lines[k]
    /\ (r.i > 0 /\ ~Verbatim(r.lines[r.i]) /\ r.f = NoFlags)
           => r.output_lines[r.i] = r.lines[r.i]

\* C12: renumber_mmcif emits exactly one output line per input line, in the
\* original order, and every line that is a section header, a "#" or loop_
\* delimiter, blank, starts with "_", or is read while no section is active
\* is emitted unchanged; the file written is the emitted lines joined by
\* newlines.
DocumentReassembly ==
    \A p \in DOMAIN runs :
        (runs[p].entry = "renumber_mmcif" /\ runs[p].pc \in {"scan", "done"})
        => /\ ReassembledSoFar(runs[p])
           /\ runs[p].pc = "done"
                  => /\ runs[p].i = Len(runs[p].lines)
                     /\ fs[runs[p].output_path] = join(runs[p].output_lines)

\* a finished call whose document holds a line starting with "_" of no
\* section and a row that was rewritten
ReassembledAroundRewrite ==
    \E p \in DOMAIN runs :
        /\ runs[p].entry = "renumber_mmcif"
        /\ runs[p].pc = "done"
        /\ runs[p].output_lines # runs[p].lines
        /\ \E k \in 1..Len(runs[p].lines) :
               /\ StartsWith(runs[p].lines[k], USCORE)
               /\ SectionOf(runs[p].lines[k]) = "none"

\* The loop a row belongs to, read from the document: the category of the
\* nearest tag line (a line starting with "_") before it, none after a "#"
\* or loop_ delimiter.
RECURSIVE LoopCategoryBefore(_, _)
LoopCategoryBefore(ls, k) ==
    IF k = 0 \/ IsSectionEnd(ls[k]) THEN "none"
    ELSE IF SectionOf(ls[k]) # "none" THEN SectionOf(ls[k])
    ELSE IF StartsWith(Strip(ls[k]), USCORE) THEN "other"
    ELSE LoopCategoryBefore(ls, k - 1)

\* every column that loop's tag lines name, in document order
RECURSIVE LoopColumnsBefore(_, _, _)
LoopColumnsBefore(ls, k, category) ==
    IF k = 0 \/ IsSectionEnd(ls[k]) THEN <<>>
    ELSE IF SectionOf(ls[k]) = category
    THEN Append(LoopColumnsBefore(ls, k - 1, category), ColName(ls[k]))
    ELSE IF StartsWith(Strip(ls[k]), USCORE) THEN <<>>
    ELSE LoopColumnsBefore(ls, k - 1, category)

OnlyResidueFieldsDiffer(l, o, category, columns) ==
    /\ Len(Parts(o)) = Len(Parts(l))
    /\ Gaps(o) = Gaps(l)
    /\ \A k \in 1..Len(Parts(l)) :
           Parts(o)[k] # Parts(l)[k] =>
               /\ k <= Len(columns)
               /\ columns[k] \in ResidueNames(category)

RowContentPreserved(r) ==
    (r.i > 0 /\ IsDataRow(r.lines[r.i]))
    => OnlyResidueFieldsDiffer(
           r.lines[r.i], r.output_lines[r.i],
           LoopCategoryBefore(r.lines, r.i - 1),
           LoopColumnsBefore(r.lines, r.i - 1,
                             LoopCategoryBefore(r.lines, r.i - 1)))

\* C11 (as stated): in a data line written by renumber_mmcif a field's text
\* differs from the line read only at the position of a residue-number
\* column of the loop the row belongs to (the loop whose tag lines precede
\* it in the document); the other fields and the whitespace between fields
\* are copied.
NonResidueContentPreserved ==
    \A p \in DOMAIN runs :
        (runs[p].entry = "renumber_mmcif" /\ runs[p].pc \in {"scan", "done"})
        => RowContentPreserved(runs[p])

FieldsAdvance(fields) ==
    \A k \in 1..Len(fields) : fields[k].end > fields[k].start

\* C13: every call of renumber_mmcif and renumber_pdb on a finite document
\* returns; each iteration consumes at least one line and never goes back,
\* every field of a consumed line spans at least one character, and a call
\* that has returned has written its output file.
RunToCompletion ==
    /\ <>(\A p \in DOMAIN runs : runs[p].pc = "done")
    /\ [][\A p \in DOMAIN runs :
              (runs[p].pc = "scan" /\ runs'[p] # runs[p] /\ runs'[p].pc = "scan")
              => runs'[p].i > runs[p].i]_vars
    /\ [](\A p \in DOMAIN runs :
              /\ runs[p].i > 0
                     => FieldsAdvance(find_field_positions(runs[p].lines[runs[p].i]))
              /\ runs[p].pc = "done"
                     => fs[runs[p].output_path] = join(runs[p].output_lines))

\* a call that has returned although a row of an atom_site loop holds a
\* residue number that is no integer
CompletedPastParseFailure ==
    \E p \in DOMAIN runs :
        /\ runs[p].pc = "done"
        /\ runs[p].entry = "renumber_mmcif"
        /\ \E k \in 2..Len(runs[p].lines) :
               /\ runs[p].lines[k - 1] = P_atom_site \o label_seq_id
               /\ runs[p].lines[k] = <<"x">>
               /\ runs[p].output_lines[k] = runs[p].lines[k]

\* the lines a call emits when nothing else runs, from the file it reads
Alone(r) ==
    ScanAlone(LinesRead(Call(r.entry, r.input_path, r.output_path,
                             r.start_residue, r.chain_id),
                        read_text(fs, r.input_path)))

EmittedAsAlone(r, alone) ==
    /\ Len(r.output_lines) <= Len(alone)
    /\ r.output_lines = SubSeq(alone, 1, Len(r.output_lines))
    /\ r.pc = "done" => fs[r.output_path] = join(alone)

\* C17: calls on disjoint pairs of input and output paths, interleaved at
\* their reads, loop iterations and writes, each emit the lines and write
\* the file they produce when run alone.
Reentrancy ==
    \A p \in DOMAIN runs :
        (runs[p].pc \in {"scan", "done"}
         /\ runs[p].input_path # runs[p].output_path)
        => EmittedAsAlone(runs[p], Alone(runs[p]))

\* two calls both in the middle of their loops, one over mmCIF and one over
\* PDB, the first having rewritten a row
BothCallsMidScan ==
    /\ Len(runs) = 2
    /\ runs[1].entry # runs[2].entry
    /\ \A p \in DOMAIN runs :
           /\ runs[p].pc = "scan"
           /\ runs[p].i >= 1
           /\ runs[p].i < Len(runs[p].lines)
    /\ \E k \in 1..runs[1].i : runs[1].output_lines[k] # runs[1].lines[k]

(***************************************************************************)
(* Properties of the entry points on paths (ApiSpec).                      *)
(***************************************************************************)
\* the text of the input file when the call was made
InputText == read_text(api.files, api.input_path)

HasMmcifMarker(text) == Contains(text, DATA_) \/ Contains(text, ATOM_SITE_DOT)
HasPdbKeyword(text) == \E kw \in PdbKeywords : StartsWith(StripText(text), kw)
HasCifExtension(name) == Lower(suffix(name)) \in {DOT_CIF, DOT_MMCIF}

Detected ==
    /\ api.op = "renumber_structure"
    /\ api.auto
    /\ api.pc \in {"output", "renumber", "returned"}

\* C14: detect_file_format returns mmcif whenever the text contains data_ or
\* _atom_site. anywhere; otherwise pdb when the trimmed text starts with
\* ATOM, HETATM, HEADER, TITLE, REMARK or CRYST; otherwise mmcif for the
\* extensions .cif and .mmcif in any letter case and pdb for any other
\* name; it always returns one of the two values.
FormatDetection ==
    Detected =>
        /\ api.file_format \in {"mmcif", "pdb"}
        /\ HasMmcifMarker(InputText) => api.file_format = "mmcif"
        /\ (~HasMmcifMarker(InputText) /\ HasPdbKeyword(InputText))
               => api.file_format = "pdb"
        /\ (~HasMmcifMarker(InputText) /\ ~HasPdbKeyword(InputText))
               => api.file_format =
                      IF HasCifExtension(api.input_path) THEN "mmcif" ELSE "pdb"

\* a text that starts with a record keyword and holds data_ further on,
\* detected as mmcif in a file named a.pdb
KeywordTextWithMarker ==
    /\ Detected
    /\ api.input_path = <<"a", ".", "p", "d", "b">>
    /\ api.files[api.input_path] = <<"A", "T", "O", "M", " ", "x", " ", "d", "a", "t", "a", "_">>
    /\ api.file_format = "mmcif"

\* C15: renumber_structure on an input path that does not exist raises the
\* not-found error before format detection and before any parsing, and no
\* file is created or changed at the explicit or default output path.
NotFoundBeforeAnyEffect ==
    (api.op = "renumber_structure" /\ api.files[api.input_path] = NoFile)
    => /\ api.pc \in {"exists", "FileNotFoundError"}
       /\ fs = api.files
       /\ api.auto => api.file_format = "auto"
       /\ api.output_path = api.given
       /\ api.result = None

\* the error raised for a missing input with format detection requested, no
\* output path given and an older file under the default output name
NotFoundRaised ==
    /\ api.op = "renumber_structure"
    /\ api.pc = "FileNotFoundError"
    /\ api.auto
    /\ api.given = None
    /\ fs[default_output_path(api.input_path)] = OldText

\* the text a returned call must have written
WrittenText ==
    Renumbered_text(IF api.file_format = "mmcif"
                    THEN "renumber_mmcif" ELSE "renumber_pdb",
                    InputText, api.start_residue, api.chain_id)

\* C16: with no output path given, renumber_structure writes to the name
\* <stem>_renumbered<suffix> beside the input and returns that path, which
\* is never the input path, so the input file keeps its content; with an
\* output path given, that path is written and returned.
DefaultOutputPath ==
    (api.op = "renumber_structure" /\ api.pc = "returned")
    => /\ fs[api.result] = WrittenText
       /\ \A q \in DOMAIN fs : q # api.result => fs[q] = api.files[q]
       /\ api.given = None
              => /\ api.result = stem(api.input_path) \o RENUMBERED
                                     \o suffix(api.input_path)
                 /\ api.result # api.input_path
                 /\ fs[api.input_path] = api.files[api.input_path]
       /\ api.given # None => api.result = api.given

\* a call that returned the default path for a name with a suffix, having
\* replaced an older file there
DefaultPathWritten ==
    /\ api.op = "renumber_structure"
    /\ api.pc = "returned"
    /\ api.given = None
    /\ suffix(api.input_path) # <<>>
    /\ api.files[api.result] = OldText
    /\ fs[api.result] # OldText
    /\ fs[api.result] # fs[api.input_path]

SplitReturned ==
    /\ api.op = "split_structure_file"
    /\ api.pc = "returned"
    /\ suffix(api.input_path) = DOT_MMCIF

\* C20: for an input file whose suffix is .mmcif, split_structure_file
\* returns the input path as the mmcif artifact and the file's content after
\* the call is its content before the call, also when a sibling .json file
\* with structures exists; the protein-only artifact is <stem>_protein.mmcif
\* and holds no line starting with HETATM.
SplitReusesExistingMmcif ==
    SplitReturned =>
        /\ api.mmcif = api.input_path
        /\ fs[api.input_path] = api.files[api.input_path]
        /\ api.protein_mmcif = stem(api.input_path) \o <<"_", "p", "r", "o", "t", "e", "i", "n", ".", "m", "m", "c", "i", "f">>
        /\ \A ln \in {splitlines(fs[api.protein_mmcif])[k] :
                          k \in 1..Len(splitlines(fs[api.protein_mmcif]))} :
               ~StartsWith(ln, HETATM)

(***************************************************************************)
(* Section states of the mmCIF scan.                                       *)
(***************************************************************************)
\* the section-active flags that are set
ActiveSections ==
    {sec \in Sections :
        \/ sec = "atom_site" /\ in_atom_site
        \/ sec = "pdbx_poly_seq_scheme" /\ in_poly_seq_scheme
        \/ sec = "entity_poly_seq" /\ in_entity_poly_seq
        \/ sec = "ma_qa_metric_local" /\ in_ma_qa_metric_local}

\* C23 (as stated): at every point of the scan at most one of the four
\* section-active flags is set.
MutualExclusion == Cardinality(ActiveSections) <= 1

\* the trimmed line read is exactly "#" or starts with loop_
TrimmedIsEnd == Strip(line) = HASH \/ StartsWith(Strip(line), LOOP_)

\* no section is active and no header block is being read
Quiet == ActiveSections = {} /\ hdr = "none"

\* C24: a line whose trimmed form is "#" or starts with loop_ is written as
\* read and leaves no section active; from then on every line that is not a
\* header line of the four sections is written as read and activates
\* nothing; a line of any other form (such as "# c") deactivates no section.
SectionEndRule ==
    /\ []((file_format = "mmcif" /\ kind \in {"header", "end", "data"} /\ TrimmedIsEnd)
              => (out = line /\ Quiet))
    /\ [][(file_format = "mmcif" /\ Quiet /\ n' = n + 1 /\ SectionOf(line') = "none")
              => (Quiet' /\ out' = line')]_vars
    /\ [][(file_format = "mmcif" /\ n' = n + 1 /\ ~TrimmedIsEnd')
              => ActiveSections \subseteq ActiveSections']_vars

\* a row with an integer in the column that was label_seq_id of atom_site,
\* read after the section has ended and written as read
RowAfterSectionEnd ==
    /\ kind = "data"
    /\ Quiet
    /\ start_residue = 3
    /\ ColIndex(atom_site_columns, label_seq_id) = 0
    /\ IsDataRow(line)
    /\ PyIntOk(LineParts[1])
    /\ out = line

(***************************************************************************)
(* Rows of one section: data rows read while the section is active that    *)
(* have at least as many fields as its schema.                             *)
(***************************************************************************)
RowIn(sec, cols) ==
    /\ kind = "data"
    /\ sec \in ActiveSections
    /\ IsDataRow(line)
    /\ Len(LineParts) >= Len(cols)

\* such a row read while no other section is active
RowOf(sec, cols) == RowIn(sec, cols) /\ ActiveSections = {sec}

\* the row's field in the column named name
FieldOf(cols, name) == LineParts[ColIndex(cols, name) + 1]

\* the schema names the column and the row holds an integer in it
HoldsInteger(cols, name) ==
    ColIndex(cols, name) # NoIdx /\ PyIntOk(FieldOf(cols, name))

\* the field written in that column is the integer read plus the offset
Shifted(cols, name) ==
    /\ ColIndex(cols, name) < Len(OutParts)
    /\ OutParts[ColIndex(cols, name) + 1]
           = PyStr(PyIntVal(FieldOf(cols, name)) + start_residue - 1)

\* with chain_id set, the row's chain column holds chain_id
PassesChainFilter(cols, name) ==
    chain_id = None \/ (HasChain(cols, name) /\ ChainOf(cols, name) = chain_id)

\* every field outside the columns named, and the text between the fields,
\* is written as read
OthersCopied(cols, names) ==
    /\ Len(OutParts) = Len(LineParts)
    /\ Gaps(out) = Gaps(line)
    /\ \A k \in 1..Len(LineParts) :
           (\A name \in names : ColIndex(cols, name) # k - 1)
               => OutParts[k] = LineParts[k]

\* a row of atom_site, read while no other section is active, that is not
\* HETATM and passes the chain filter
AtomSiteRenumberedRow ==
    /\ RowOf("atom_site", atom_site_columns)
    /\ \/ ColIndex(atom_site_columns, group_PDB) = NoIdx
       \/ FieldOf(atom_site_columns, group_PDB) # HETATM
    /\ PassesChainFilter(atom_site_columns, label_asym_id)

\* the schema does not name the column, or the row holds an integer or a
\* sentinel in it
AbsentIntegerOrSentinel(cols, name) ==
    \/ ColIndex(cols, name) = NoIdx
    \/ PyIntOk(FieldOf(cols, name))
    \/ FieldOf(cols, name) \in {DOT, QMARK}

\* C25 (as stated, for rows read while atom_site is the only active
\* section): in such a row label_seq_id is shifted by the offset
\* whenever it holds an integer, and so is auth_seq_id, each whatever the
\* other holds (an integer, "." or "?") and whether or not the schema names
\* the other; every other field and the whitespace are written as read.
AtomSiteTwoFieldRewrite ==
    AtomSiteRenumberedRow =>
        /\ (/\ HoldsInteger(atom_site_columns, label_seq_id)
            /\ AbsentIntegerOrSentinel(atom_site_columns, auth_seq_id))
               => Shifted(atom_site_columns, label_seq_id)
        /\ (/\ HoldsInteger(atom_site_columns, auth_seq_id)
            /\ AbsentIntegerOrSentinel(atom_site_columns, label_seq_id))
               => Shifted(atom_site_columns, auth_seq_id)
        /\ OthersCopied(atom_site_columns, {label_seq_id, auth_seq_id})

\* the residue-number columns of pdbx_poly_seq_scheme that the schema names
\* and in which the row holds neither "." nor "?"
PolySeqSchemeTargets ==
    {name \in {seq_id, pdb_seq_num, auth_seq_num} :
        /\ ColIndex(poly_seq_scheme_columns, name) # NoIdx
        /\ FieldOf(poly_seq_scheme_columns, name) \notin {DOT, QMARK}}

\* a row of pdbx_poly_seq_scheme that passes the chain filter
PolySeqSchemeRenumberedRow ==
    /\ RowIn("pdbx_poly_seq_scheme", poly_seq_scheme_columns)
    /\ PassesChainFilter(poly_seq_scheme_columns, asym_id)

\* C26 (as stated): such a row is written with exactly the fields of seq_id,
\* pdb_seq_num and auth_seq_num that are present and not "."/"?" replaced by
\* the integer read plus the offset, every other field and the whitespace as
\* read; if one of those fields is not an integer the row is written as read.
PolySeqSchemeMultiFieldRewrite ==
    PolySeqSchemeRenumberedRow =>
        IF \E name \in PolySeqSchemeTargets :
               ~PyIntOk(FieldOf(poly_seq_scheme_columns, name))
        THEN out = line
        ELSE /\ \A name \in PolySeqSchemeTargets :
                    Shifted(poly_seq_scheme_columns, name)
             /\ OthersCopied(poly_seq_scheme_columns, PolySeqSchemeTargets)

\* a row of atom_site, read while no other section is active, whose
\* label_seq_id holds an integer and whose auth_seq_id does not stop the
\* rewrite
AtomSiteIntegerRow ==
    /\ RowOf("atom_site", atom_site_columns)
    /\ HoldsInteger(atom_site_columns, label_seq_id)
    /\ AbsentIntegerOrSentinel(atom_site_columns, auth_seq_id)

\* C27 (as stated): when the atom_site schema has no group_PDB column no row
\* is exempt as HETATM, and when it has no label_asym_id column the chain
\* check is skipped: the row's label_seq_id is shifted by the offset even
\* when chain_id is set.
MissingColumnsSkipTheirCheck ==
    /\ (/\ AtomSiteIntegerRow
        /\ ColIndex(atom_site_columns, group_PDB) = NoIdx
        /\ PassesChainFilter(atom_site_columns, label_asym_id))
           => Shifted(atom_site_columns, label_seq_id)
    /\ (/\ AtomSiteIntegerRow
        /\ ColIndex(atom_site_columns, label_asym_id) = NoIdx
        /\ \/ ColIndex(atom_site_columns, group_PDB) = NoIdx
           \/ FieldOf(atom_site_columns, group_PDB) # HETATM)
           => Shifted(atom_site_columns, label_seq_id)

\* C28 (as stated): a row of entity_poly_seq with an integer in the num
\* column is written with that integer plus the offset, whether chain_id is
\* set or not; a row with "." or "?" in the num column is written as read.
EntityPolySeqIgnoresChainFilter ==
    (/\ RowIn("entity_poly_seq", entity_poly_seq_columns)
     /\ ColIndex(entity_poly_seq_columns, num) # NoIdx)
    => /\ PyIntOk(FieldOf(entity_poly_seq_columns, num))
              => Shifted(entity_poly_seq_columns, num)
       /\ FieldOf(entity_poly_seq_columns, num) \in {DOT, QMARK} => out = line

\* C29 (as stated): with start_residue # 1 no field of a data row is written
\* holding the integer read plus twice the offset.
SingleApplication ==
    (kind = "data" /\ start_residue # 1 /\ Len(OutParts) = Len(LineParts)) =>
        \A k \in 1..Len(LineParts) :
            ~(/\ PyIntOk(LineParts[k])
              /\ PyIntOk(OutParts[k])
              /\ PyIntVal(OutParts[k])
                     = PyIntVal(LineParts[k]) + 2 * (start_residue - 1))

(***************************************************************************)
(* Composition of runs.                                                    *)
(***************************************************************************)
\* the two calls in sequence and the single call have all returned
Composed == Len(runs) = 3 /\ \A p \in DOMAIN runs : runs[p].pc = "done"

\* C30 (as stated): the file written by renumbering with s1 and then
\* renumbering the result with s2 equals the file written by renumbering the
\* input once with s1 + s2 - 1.
CompositionOfRuns == Composed => fs.out2 = fs.out1

(***************************************************************************)
(* Properties of the helpers (HelperSpec).                                 *)
(***************************************************************************)
\* the non-empty texts of a list of structure texts, in the list's order
RECURSIVE NonEmptyInOrder(_)
NonEmptyInOrder(structures) ==
    IF structures = <<>> THEN <<>>
    ELSE (IF Len(structures[1]) > 0 THEN <<structures[1]>> ELSE <<>>)
         \o NonEmptyInOrder(Tail(structures))

\* what the claim gives for a dict: nothing when "structures" is missing
DictResult(v) == IF v.has_key THEN NonEmptyInOrder(v.structures) ELSE <<>>

\* the text, leading whitespace aside, starts with "{"
StartsWithBrace(text) ==
    \E a \in 1..Len(text) :
        text[a] = "{" /\ \A k \in 1..(a - 1) : text[k] \in PyWhitespace

\* the text is the JSON text of one of the responses, whitespace around it
\* aside
IsJsonOf(text, v) ==
    \E a \in 0..Len(text), b \in 0..Len(text) :
        /\ \A k \in 1..a : text[k] \in PyWhitespace
        /\ \A k \in (b + 1)..Len(text) : text[k] \in PyWhitespace
        /\ SubSeq(text, a + 1, b) = JsonText(v)

\* C21: extract_all_mmcifs returns, for a dict, the non-empty structure
\* texts in response order (none when "structures" is missing); for a string
\* that does not start with "{" or is no JSON, the string alone; for the
\* JSON text of an object, what it returns for the object.
ExtractAllMmcifsContract ==
    (api.pc = "returned" /\ api.fn = "extract_all_mmcifs") =>
        IF api.arg.type = "dict"
        THEN api.result = DictResult(api.arg.dict)
        ELSE IF /\ StartsWithBrace(api.arg.text)
                /\ \E v \in ResponseValues : IsJsonOf(api.arg.text, v)
        THEN \A v \in ResponseValues :
                 IsJsonOf(api.arg.text, v) => api.result = DictResult(v)
        ELSE api.result = <<api.arg.text>>

\* a JSON text with an empty structure between two different ones
JsonTextWithEmptyEntry ==
    /\ api.pc = "returned"
    /\ api.fn = "extract_all_mmcifs"
    /\ api.arg.type = "str"
    /\ \E v \in ResponseValues :
           /\ IsJsonOf(api.arg.text, v)
           /\ Len(v.structures) = 2
           /\ v.structures[1] = <<>>
           /\ v.structures[2] # <<>>
    /\ Len(api.result) = 1

\* a character the result may hold
AllowedChar(ch) == isalnum(ch) \/ ch \in {"-", "_", "."}

\* the positions of a name between its first and last character that is not
\* whitespace, both included
CorePositions(name) ==
    {k \in 1..Len(name) :
        /\ \E a \in 1..k : name[a] \notin PyWhitespace
        /\ \E b \in k..Len(name) : name[b] \notin PyWhitespace}

\* those of them that hold a space or an allowed character
KeptPositions(name) ==
    {k \in CorePositions(name) : name[k] = " " \/ AllowedChar(name[k])}

\* C22: sanitize_name returns the name without leading and trailing
\* whitespace, with "_" for each space left and without the characters that
\* are neither alphanumeric nor "-", "_" or ".", the others in order; the
\* result holds only such characters, and sanitising it again changes
\* nothing.
SanitizeNameContract ==
    (api.fn = "sanitize_name" /\ api.pc \in {"returned", "resanitized"}) =>
        /\ Len(api.result) = Cardinality(KeptPositions(api.arg))
        /\ \A k \in KeptPositions(api.arg) :
               api.result[Cardinality({j \in KeptPositions(api.arg) : j <= k})]
                   = (IF api.arg[k] = " " THEN "_" ELSE api.arg[k])
        /\ \A k \in 1..Len(api.result) : AllowedChar(api.result[k])
        /\ api.pc = "resanitized" => api.again = api.result

\* a name with leading whitespace and a space inside, sanitised twice
NameStrippedAndJoined ==
    /\ api.fn = "sanitize_name"
    /\ api.pc = "resanitized"
    /\ Len(api.arg) > 0
    /\ api.arg[1] \in PyWhitespace
    /\ \A k \in 1..Len(api.arg) : api.arg[k] # "_"
    /\ \E k \in 1..Len(api.result) : api.result[k] = "_"

====
